---- MODULE Spec2Model ----
(***************************************************************************)
(* The in-memory Store of GEEK_back (src/store/store.go): the catalog,     *)
(* the attempts, answer grading, attempt submission and the deadline.      *)
(*                                                                         *)
(* Spec     : every Store operation runs alone (one caller at a time), one *)
(*            action per operation.                                        *)
(* ConcSpec : the same operations run by several goroutines, one action    *)
(*            per lock operation or memory access, under sync.RWMutex.     *)
(*                                                                         *)
(* Time is counted in ticks of the clock `now`; Answer.CreatedAt and       *)
(* Attempt/Question display fields (Name, Text, Description) are written   *)
(* but never read by the Store and are left out.                           *)
(***************************************************************************)
EXTENDS Integers, Sequences, FiniteSets, TLC

\* ------------------------------------------------------------------ bounds
\* The bootstrap catalog has 7 questions of which 4 are selected and a time
\* limit of one hour; the model takes a prefix of the catalog, selects fewer
\* and counts the limit in ticks.
NumQuestions == 2
NumOfQuestions == 1
TimeLimit == 1
MaxTime == 2
MaxAttempts == 2
\* CreateAnswer is not offered once Result has reached MaxAwards * MaxScore.
MaxAwards == 2

\* ------------------------------------------------------------- constants
MaxScore == 10

\* Error values (the messages of errors.New in store.go).
ErrNone == "ok"
ErrAttemptNotFound == "attempt not found"
ErrTestNotFound == "test not found"
ErrTimeout == "test attempt timeout"
ErrOutOfRange == "question position out of range"
ErrClosed == "attempt closed"
\* A Go runtime panic (index out of range); deferred unlocks still run.
Panic == "panic: index out of range"
ErrInvalidCode == "invalid access code"
ErrWrongTest == "access code is not valid for this test"
ErrCodeExpired == "access code has expired"
ErrLimitReached == "access code usage limit reached"
ErrCodeExists == "access code already exists"
ErrUserExists == "user already exists"
ErrInvalidEmailOrPassword == "invalid email or password"
ErrHash == "cannot hash password"
ErrSessionNotFound == "session not found"
ErrQuestionNotFound == "question not found for answer"
ErrInvalidPosition == "invalid question position"
ErrThreadExists == "thread already exists for this question"
NilDereference == "panic: nil pointer dereference"

\* The questions of InitFillStore, in order (answers 2, 4 and 5 are Cyrillic
\* texts in the source and are written here by a Latin stand-in).
AllQuestions ==
    << [ID |-> 1, TrueAnswer |-> "270", MaxScore |-> MaxScore],
       [ID |-> 2, TrueAnswer |-> "RBK", MaxScore |-> MaxScore],
       [ID |-> 3, TrueAnswer |-> "2334", MaxScore |-> MaxScore],
       [ID |-> 4, TrueAnswer |-> "punctuated", MaxScore |-> MaxScore],
       [ID |-> 5, TrueAnswer |-> "anna", MaxScore |-> MaxScore],
       [ID |-> 6, TrueAnswer |-> "0,89", MaxScore |-> MaxScore],
       [ID |-> 7, TrueAnswer |-> "180", MaxScore |-> MaxScore] >>

Min(a, b) == IF a < b THEN a ELSE b

\* The catalog as loaded by InitFillStore: test 1.
BootstrapTests ==
    [t \in {1} |->
        [ID |-> 1,
         TimeLimit |-> TimeLimit,
         Questions |-> SubSeq(AllQuestions, 1, Min(NumQuestions, Len(AllQuestions))),
         NumOfQuestions |-> NumOfQuestions]]

\* ----------------------------------------------------------------- inputs
TestIDs == {1, 2}
UserIDs == {1, 2}
AttemptIDs == 1..(MaxAttempts + 1)
Positions == 0..(NumOfQuestions + 2)
Texts == {AllQuestions[1].TrueAnswer, AllQuestions[2].TrueAnswer, "wrong"}

VARIABLES
    tests,       \* Store.tests: test id -> Test
    attempts,    \* Store.attempts: attempt id -> Attempt
    nextUserID,  \* Store.nextUserID
    users,       \* Store.users: user id -> User
    usersByEmail,\* Store.usersByEmail: email -> user id
    created,     \* per email, the number of CreateUser calls that succeeded
    sessions,    \* Store.sessions: session id -> user id
    issued,      \* the session ids CreateSession has returned, each with its user id
    aiThreads,   \* Store.aiThreads: key -> AIThread
    openai,      \* the assistant's run as the request in flight sees it
    accessCodes, \* Store.accessCodes: code -> AccessCode
    validated,   \* per code, the number of ValidateAccessCode calls that succeeded
    now,         \* the system clock (time.Now().UTC())
    mu,          \* Store.mu, the sync.RWMutex
    pc,          \* ConcSpec: where each goroutine is in its call
    loc          \* ConcSpec: each goroutine's arguments, locals and result

storeVars == <<tests, attempts, nextUserID>>
userVars == <<users, usersByEmail, created>>
sessionVars == <<sessions, issued>>
codeVars == <<accessCodes, validated>>
procVars == <<mu, pc, loc>>
vars == <<tests, attempts, nextUserID, users, usersByEmail, created, sessions, issued,
          aiThreads, openai, accessCodes, validated, now, mu, pc, loc>>

\* ------------------------------------------------------------ map helpers
MapPut(m, k, v) == [x \in (DOMAIN m) \cup {k} |-> IF x = k THEN v ELSE m[x]]

EmptyMap == [x \in {} |-> 0]

\* No run: status is the status the service reports for the run, elapsed the
\* seconds since WaitForCompletion began, tick whether the ticker has a tick
\* waiting, ctxDone whether the request's context is cancelled.
NoRun == [status |-> "none", elapsed |-> 0, tick |-> FALSE, ctxDone |-> FALSE]

\* delete(m, k)
MapRemove(m, k) == [x \in (DOMAIN m) \ {k} |-> m[x]]

\* --------------------------------------------------- getRandomQuestions
Perms(n) == {f \in [1..n -> 1..n] : \A i, j \in 1..n : f[i] = f[j] => i = j}

\* r.Shuffle swaps the elements of the slice in place: the slice afterwards.
\* A draw with replacement, for comparison with the shuffle: every place gets
\* the question of the first draw.
ShuffledWithRepeats(allQuestions, perm) ==
    [i \in 1..Len(allQuestions) |-> allQuestions[perm[1]]]

Shuffled(allQuestions, perm) == [i \in 1..Len(allQuestions) |-> allQuestions[perm[i]]]

\* The clamp of numOfQuestions and the prefix allQuestions[:numOfQuestions].
SelectedQuestions(shuffled, numOfQuestions) ==
    SubSeq(shuffled, 1, Min(numOfQuestions, Len(shuffled)))

\* ---------------------------------------------------------- CreateAttempt
NewAnswer(question) ==
    [ID |-> question.ID, QuestionID |-> question.ID, Text |-> "", RightOrNot |-> FALSE]

\* An attempt built with the user and the test exchanged, for comparison with
\* NewAttempt.
NewAttemptSwapped(id, testID, userID, selected, startedAt) ==
    [ID |-> id,
     UserID |-> testID,
     TestID |-> userID,
     Status |-> "started",
     Answers |-> [i \in 1..Len(selected) |-> NewAnswer(selected[i])],
     Result |-> 0,
     StartedAt |-> startedAt,
     FinishedAt |-> 0]

NewAttempt(id, testID, userID, selected, startedAt) ==
    [ID |-> id,
     UserID |-> userID,
     TestID |-> testID,
     Status |-> "started",
     Answers |-> [i \in 1..Len(selected) |-> NewAnswer(selected[i])],
     Result |-> 0,
     StartedAt |-> startedAt,
     FinishedAt |-> 0]

NextAttemptID(atts) == Cardinality(DOMAIN atts) + 1

\* A CreateAttempt that counts the call before it looks the test up, for
\* comparison with CreateAttemptOutcome.
CreateAttemptCounting(atts, tsts, nuid, t, testID, userID, perm) ==
    IF testID \notin DOMAIN tsts
    THEN [tests |-> tsts, attempts |-> atts, nextUserID |-> nuid + 1, err |-> ErrTestNotFound]
    ELSE LET shuffled == Shuffled(tsts[testID].Questions, perm)
             selected == SelectedQuestions(shuffled, tsts[testID].NumOfQuestions)
             id == NextAttemptID(atts)
         IN [tests |-> [tsts EXCEPT ![testID].Questions = shuffled],
             attempts |-> MapPut(atts, id, NewAttempt(id, testID, userID, selected, t)),
             nextUserID |-> nuid + 1,
             err |-> ErrNone]

\* What CreateAttempt leaves in the store and returns, for the permutation the
\* shuffle draws.
CreateAttemptOutcome(atts, tsts, nuid, t, testID, userID, perm) ==
    IF testID \notin DOMAIN tsts
    THEN [tests |-> tsts, attempts |-> atts, nextUserID |-> nuid, err |-> ErrTestNotFound]
    ELSE LET shuffled == Shuffled(tsts[testID].Questions, perm)
             selected == SelectedQuestions(shuffled, tsts[testID].NumOfQuestions)
             id == NextAttemptID(atts)
         IN [tests |-> [tsts EXCEPT ![testID].Questions = shuffled],
             attempts |-> MapPut(atts, id, NewAttempt(id, testID, userID, selected, t)),
             nextUserID |-> nuid + 1,
             err |-> ErrNone]

\* The permutations the shuffle of test testID can draw (one, unused, when the
\* test does not exist).
ShufflesOf(tsts, testID) ==
    IF testID \in DOMAIN tsts THEN Perms(Len(tsts[testID].Questions)) ELSE Perms(0)

CreateAttempt(testID, userID) ==
    /\ Cardinality(DOMAIN attempts) < MaxAttempts
    /\ \E perm \in ShufflesOf(tests, testID) :
         LET out == CreateAttemptOutcome(attempts, tests, nextUserID, now, testID, userID, perm)
         IN /\ tests' = out.tests
            /\ attempts' = out.attempts
            /\ nextUserID' = out.nextUserID
            /\ UNCHANGED <<userVars, sessionVars, aiThreads, openai, codeVars, now, procVars>>

\* ---------------------------------------------------------- CheckDeadline
\* Two other readings of the deadline, for comparison with DeadlinePassed: one
\* that ends the attempt at the deadline itself, one that never ends it.
DeadlinePassedInclusive(startedAt, timeLimit, t) ==
    timeLimit > 0 /\ t >= startedAt + timeLimit

DeadlineNeverPassed(startedAt, timeLimit, t) == FALSE

DeadlinePassed(startedAt, timeLimit, t) == timeLimit > 0 /\ t > startedAt + timeLimit

CheckDeadline(atts, tsts, t, attemptID) ==
    IF attemptID \notin DOMAIN atts THEN ErrAttemptNotFound
    ELSE IF atts[attemptID].TestID \notin DOMAIN tsts THEN ErrTestNotFound
    ELSE IF DeadlinePassed(atts[attemptID].StartedAt, tsts[atts[attemptID].TestID].TimeLimit, t)
         THEN ErrTimeout
    ELSE ErrNone

\* ----------------------------------------------------------- CreateAnswer
\* int(questionPos-1) on uint64 questionPos: 0-1 wraps to 2^64-1, which
\* converts to the int -1.
IntPosMinus1(questionPos) == IF questionPos = 0 THEN -1 ELSE questionPos - 1

\* len(attempt.Answers) < int(questionPos-1)
PositionRejected(answers, questionPos) == Len(answers) < IntPosMinus1(questionPos)

\* s[questionPos-1] is inside the slice (uint64 index 2^64-1 for position 0 is not).
IndexInRange(s, questionPos) == questionPos >= 1 /\ questionPos <= Len(s)

IsRight(question, text) == text = question.TrueAnswer

\* Mutant of Graded: the score is added whatever the text.
GradedAlways(result, question, text) == result + question.MaxScore

\* Mutant of Graded: a wrong text takes the question's score back.
GradedReverting(result, question, text) ==
    IF IsRight(question, text) THEN result + question.MaxScore
    ELSE IF result >= question.MaxScore THEN result - question.MaxScore
    ELSE result

\* store.go:407-408: attempt.Result after the comparison of the text.
Graded(result, question, text) ==
    IF IsRight(question, text) THEN result + question.MaxScore ELSE result

\* The attempt after the statements of store.go:404-415 that ran, and how they ended.
AnswerOutcome(attempt, test, questionPos, text) ==
    IF ~IndexInRange(test.Questions, questionPos)
    THEN [attempt |-> attempt, err |-> Panic]
    ELSE LET question == test.Questions[questionPos]
             scored == [attempt EXCEPT !.Result = Graded(attempt.Result, question, text)]
         IN IF ~IndexInRange(attempt.Answers, questionPos)
            THEN [attempt |-> scored, err |-> Panic]
            ELSE [attempt |-> [scored EXCEPT
                                 !.Answers[questionPos].RightOrNot = IsRight(question, text),
                                 !.Answers[questionPos].Text = text],
                  err |-> ErrNone]

\* What CreateAnswer leaves in the attempts map and returns.
CreateAnswerOutcome(atts, tsts, t, attemptID, questionPos, text) ==
    LET err == CheckDeadline(atts, tsts, t, attemptID)
    IN IF err # ErrNone
       THEN [attempts |-> atts, err |-> err]
       ELSE LET attempt == atts[attemptID]
                test == tsts[attempt.TestID]
            IN IF PositionRejected(attempt.Answers, questionPos)
               THEN [attempts |-> atts, err |-> ErrOutOfRange]
               ELSE LET out == AnswerOutcome(attempt, test, questionPos, text)
                    IN [attempts |-> [atts EXCEPT ![attemptID] = out.attempt],
                        err |-> out.err]

\* The score the model lets an attempt reach.
ResultCap == MaxAwards * MaxScore

CreateAnswer(attemptID, questionPos, text) ==
    /\ attemptID \in DOMAIN attempts => attempts[attemptID].Result < ResultCap
    /\ attempts' = CreateAnswerOutcome(attempts, tests, now, attemptID, questionPos, text).attempts
    /\ UNCHANGED <<userVars, sessionVars, aiThreads, openai, codeVars, tests, nextUserID, now, procVars>>

\* ---------------------------------------------------------- SubmitAttempt
\* A submission that also clears the score, for comparison with Submitted.
SubmittedCleared(attempt, t) ==
    [attempt EXCEPT !.Status = "submitted", !.FinishedAt = t, !.Result = 0]

Submitted(attempt, t) == [attempt EXCEPT !.Status = "submitted", !.FinishedAt = t]

\* A SubmitAttempt without the status check of store.go:429-431, for
\* comparison with SubmitAttemptOutcome.
SubmitAttemptUnchecked(atts, tsts, t, attemptID) ==
    LET err == CheckDeadline(atts, tsts, t, attemptID)
    IN IF err # ErrNone
       THEN [attempts |-> atts, err |-> err]
       ELSE [attempts |-> [atts EXCEPT ![attemptID] = Submitted(atts[attemptID], t)],
             err |-> ErrNone]

\* What SubmitAttempt leaves in the attempts map and returns.
SubmitAttemptOutcome(atts, tsts, t, attemptID) ==
    LET err == CheckDeadline(atts, tsts, t, attemptID)
    IN IF err # ErrNone
       THEN [attempts |-> atts, err |-> err]
       ELSE IF atts[attemptID].Status # "started"
       THEN [attempts |-> atts, err |-> ErrClosed]
       ELSE [attempts |-> [atts EXCEPT ![attemptID] = Submitted(atts[attemptID], t)],
             err |-> ErrNone]

SubmitAttempt(attemptID) ==
    /\ attempts' = SubmitAttemptOutcome(attempts, tests, now, attemptID).attempts
    /\ UNCHANGED <<userVars, sessionVars, aiThreads, openai, codeVars, tests, nextUserID, now, procVars>>

\* ------------------------------------------------------------------ clock
Tick ==
    /\ now < MaxTime
    /\ now' = now + 1
    /\ UNCHANGED <<userVars, sessionVars, aiThreads, openai, codeVars, tests, attempts, nextUserID, procVars>>

\* ------------------------------------------------------------ goroutines
\* ConcSpec runs the calls of NumProcs goroutines, interleaved at the lock
\* operations and at the reads and writes of the attempt.
NumProcs == 2
Procs == 1..NumProcs

Pending == "pending"

\* What a goroutine keeps of a call once it has returned: the call and its result.
Returned(l, err) ==
    [op |-> l.op, testID |-> 0, userID |-> 0, attemptID |-> l.attemptID,
     questionPos |-> 0, text |-> "", built |-> <<>>, question |-> <<>>, read |-> 0,
     code |-> l.code, email |-> "", password |-> "", token |-> l.token, err |-> err]

NoLocals ==
    [op |-> "none", testID |-> 0, userID |-> 0, attemptID |-> 0, questionPos |-> 0,
     text |-> "", built |-> <<>>, question |-> <<>>, read |-> 0,
     code |-> "", email |-> "", password |-> "", token |-> "", err |-> ErrNone]

\* sync.RWMutex: w is the goroutine that holds rw.w and has announced itself
\* to the readers (0: none); readers counts the read locks each goroutine holds.
\* RLock blocks while a writer is announced; Lock waits for the readers to leave.
MuFree == [w |-> 0, readers |-> [p \in Procs |-> 0]]

RLockOpen == mu.w = 0

NoReaders == \A q \in Procs : mu.readers[q] = 0

RLocked(p) == [mu EXCEPT !.readers[p] = @ + 1]

RUnlocked(p) == [mu EXCEPT !.readers[p] = @ - 1]

\* CreateAttempt, store.go:207-233: the test lookup, the shuffle of the test's
\* own question slice, the id from len(s.attempts) and the answers, all before
\* the lock is taken.
CallCreateAttempt(p, testID, userID) ==
    /\ pc[p] = "idle"
    /\ Cardinality(DOMAIN attempts) < MaxAttempts
    /\ IF testID \notin DOMAIN tests
       THEN /\ loc' = [loc EXCEPT ![p] = [NoLocals EXCEPT !.op = "CreateAttempt",
                           !.testID = testID, !.userID = userID, !.err = ErrTestNotFound]]
            /\ UNCHANGED <<userVars, sessionVars, aiThreads, openai, codeVars, tests, attempts, nextUserID, now, mu, pc>>
       ELSE \E perm \in ShufflesOf(tests, testID) :
              LET shuffled == Shuffled(tests[testID].Questions, perm)
                  selected == SelectedQuestions(shuffled, tests[testID].NumOfQuestions)
                  id == NextAttemptID(attempts)
              IN /\ tests' = [tests EXCEPT ![testID].Questions = shuffled]
                 /\ loc' = [loc EXCEPT ![p] = [NoLocals EXCEPT !.op = "CreateAttempt",
                                !.testID = testID, !.userID = userID, !.err = Pending,
                                !.built = <<NewAttempt(id, testID, userID, selected, now)>>]]
                 /\ pc' = [pc EXCEPT ![p] = "at_lock"]
                 /\ UNCHANGED <<userVars, sessionVars, aiThreads, openai, codeVars, attempts, nextUserID, now, mu>>

\* s.mu.Lock(), store.go:235: take rw.w and announce the writer.
AttemptLock(p) ==
    /\ pc[p] = "at_lock"
    /\ mu.w = 0
    /\ mu' = [mu EXCEPT !.w = p]
    /\ pc' = [pc EXCEPT ![p] = "at_insert"]
    /\ UNCHANGED <<userVars, sessionVars, aiThreads, openai, codeVars, tests, attempts, nextUserID, now, loc>>

\* store.go:235-240: once the readers have left, the insertion, nextUserID++,
\* Unlock and the return.
AttemptInsert(p) ==
    /\ pc[p] = "at_insert"
    /\ NoReaders
    /\ attempts' = MapPut(attempts, loc[p].built[1].ID, loc[p].built[1])
    /\ nextUserID' = nextUserID + 1
    /\ mu' = [mu EXCEPT !.w = 0]
    /\ loc' = [loc EXCEPT ![p] = [Returned(@, ErrNone) EXCEPT !.attemptID = loc[p].built[1].ID]]
    /\ pc' = [pc EXCEPT ![p] = "idle"]
    /\ UNCHANGED <<userVars, sessionVars, aiThreads, openai, codeVars, tests, now>>

CallCreateAnswer(p, attemptID, questionPos, text) ==
    /\ pc[p] = "idle"
    /\ attemptID \in DOMAIN attempts => attempts[attemptID].Result < ResultCap
    /\ loc' = [loc EXCEPT ![p] = [NoLocals EXCEPT !.op = "CreateAnswer", !.err = Pending,
                   !.attemptID = attemptID, !.questionPos = questionPos, !.text = text]]
    /\ pc' = [pc EXCEPT ![p] = "rlock"]
    /\ UNCHANGED <<userVars, sessionVars, aiThreads, openai, codeVars, tests, attempts, nextUserID, now, mu>>

CallSubmitAttempt(p, attemptID) ==
    /\ pc[p] = "idle"
    /\ loc' = [loc EXCEPT ![p] = [NoLocals EXCEPT !.op = "SubmitAttempt", !.err = Pending,
                   !.attemptID = attemptID]]
    /\ pc' = [pc EXCEPT ![p] = "rlock"]
    /\ UNCHANGED <<userVars, sessionVars, aiThreads, openai, codeVars, tests, attempts, nextUserID, now, mu>>

\* s.mu.RLock() of CreateAnswer (store.go:382) and SubmitAttempt (store.go:421).
OuterRLock(p) ==
    /\ pc[p] = "rlock"
    /\ RLockOpen
    /\ mu' = RLocked(p)
    /\ pc' = [pc EXCEPT ![p] = "cd_rlock"]
    /\ UNCHANGED <<userVars, sessionVars, aiThreads, openai, codeVars, tests, attempts, nextUserID, now, loc>>

\* s.mu.RLock() of CheckDeadline (store.go:358), called with the read lock held.
DeadlineRLock(p) ==
    /\ pc[p] = "cd_rlock"
    /\ RLockOpen
    /\ mu' = RLocked(p)
    /\ pc' = [pc EXCEPT ![p] = "cd"]
    /\ UNCHANGED <<userVars, sessionVars, aiThreads, openai, codeVars, tests, attempts, nextUserID, now, loc>>

\* The body of CheckDeadline and its deferred RUnlock (store.go:359-379).
DeadlineChecked(p) ==
    /\ pc[p] = "cd"
    /\ LET err == CheckDeadline(attempts, tests, now, loc[p].attemptID)
       IN IF err # ErrNone
          THEN /\ loc' = [loc EXCEPT ![p].err = err]
               /\ pc' = [pc EXCEPT ![p] = "runlock"]
          ELSE /\ pc' = [pc EXCEPT ![p] =
                            IF loc[p].op = "CreateAnswer" THEN "an_check" ELSE "sb_check"]
               /\ UNCHANGED loc
    /\ mu' = RUnlocked(p)
    /\ UNCHANGED <<userVars, sessionVars, aiThreads, openai, codeVars, tests, attempts, nextUserID, now>>

\* store.go:390-408: the lookups, the range check, the question at the position
\* and, for a right answer, the read of attempt.Result.
AnswerCheck(p) ==
    /\ pc[p] = "an_check"
    /\ LET attempt == attempts[loc[p].attemptID]
           test == tests[attempt.TestID]
           questionPos == loc[p].questionPos
       IN IF PositionRejected(attempt.Answers, questionPos)
          THEN /\ loc' = [loc EXCEPT ![p].err = ErrOutOfRange]
               /\ pc' = [pc EXCEPT ![p] = "runlock"]
          ELSE IF ~IndexInRange(test.Questions, questionPos)
          THEN /\ loc' = [loc EXCEPT ![p].err = Panic]
               /\ pc' = [pc EXCEPT ![p] = "runlock"]
          ELSE LET question == test.Questions[questionPos]
               IN /\ loc' = [loc EXCEPT ![p].question = <<question>>,
                                        ![p].read = attempt.Result]
                  /\ pc' = [pc EXCEPT ![p] =
                               IF IsRight(question, loc[p].text) THEN "an_write" ELSE "an_mark"]
    /\ UNCHANGED <<userVars, sessionVars, aiThreads, openai, codeVars, tests, attempts, nextUserID, now, mu>>

\* store.go:408: the write of attempt.Result += question.MaxScore.
AnswerWriteResult(p) ==
    /\ pc[p] = "an_write"
    /\ attempts' = [attempts EXCEPT ![loc[p].attemptID].Result =
                       Graded(loc[p].read, loc[p].question[1], loc[p].text)]
    /\ pc' = [pc EXCEPT ![p] = "an_mark"]
    /\ UNCHANGED <<userVars, sessionVars, aiThreads, openai, codeVars, tests, nextUserID, now, mu, loc>>

\* store.go:409-415: the writes of RightOrNot and Text of the answer.
AnswerMark(p) ==
    /\ pc[p] = "an_mark"
    /\ LET attempt == attempts[loc[p].attemptID]
           questionPos == loc[p].questionPos
       IN IF ~IndexInRange(attempt.Answers, questionPos)
          THEN /\ loc' = [loc EXCEPT ![p].err = Panic]
               /\ UNCHANGED attempts
          ELSE /\ attempts' = [attempts EXCEPT
                                 ![loc[p].attemptID].Answers[questionPos].RightOrNot =
                                     IsRight(loc[p].question[1], loc[p].text),
                                 ![loc[p].attemptID].Answers[questionPos].Text = loc[p].text]
               /\ loc' = [loc EXCEPT ![p].err = ErrNone]
    /\ pc' = [pc EXCEPT ![p] = "runlock"]
    /\ UNCHANGED <<userVars, sessionVars, aiThreads, openai, codeVars, tests, nextUserID, now, mu>>

\* store.go:429-431: the check of the status.
SubmitCheck(p) ==
    /\ pc[p] = "sb_check"
    /\ IF attempts[loc[p].attemptID].Status # "started"
       THEN /\ loc' = [loc EXCEPT ![p].err = ErrClosed]
            /\ pc' = [pc EXCEPT ![p] = "runlock"]
       ELSE /\ pc' = [pc EXCEPT ![p] = "sb_write"]
            /\ UNCHANGED loc
    /\ UNCHANGED <<userVars, sessionVars, aiThreads, openai, codeVars, tests, attempts, nextUserID, now, mu>>

\* store.go:433-439: the writes of Status and FinishedAt.
SubmitWrite(p) ==
    /\ pc[p] = "sb_write"
    /\ attempts' = [attempts EXCEPT ![loc[p].attemptID] = Submitted(@, now)]
    /\ loc' = [loc EXCEPT ![p].err = ErrNone]
    /\ pc' = [pc EXCEPT ![p] = "runlock"]
    /\ UNCHANGED <<userVars, sessionVars, aiThreads, openai, codeVars, tests, nextUserID, now, mu>>

\* The deferred s.mu.RUnlock() of CreateAnswer and SubmitAttempt, and the return.
OuterRUnlock(p) ==
    /\ pc[p] = "runlock"
    /\ mu' = RUnlocked(p)
    /\ loc' = [loc EXCEPT ![p] = Returned(@, loc[p].err)]
    /\ pc' = [pc EXCEPT ![p] = "idle"]
    /\ UNCHANGED <<userVars, sessionVars, aiThreads, openai, codeVars, tests, attempts, nextUserID, now>>

\* A step of a call in flight.
Step(p) ==
    \/ AttemptLock(p)
    \/ AttemptInsert(p)
    \/ OuterRLock(p)
    \/ DeadlineRLock(p)
    \/ DeadlineChecked(p)
    \/ AnswerCheck(p)
    \/ AnswerWriteResult(p)
    \/ AnswerMark(p)
    \/ SubmitCheck(p)
    \/ SubmitWrite(p)
    \/ OuterRUnlock(p)

\* The arguments the goroutines call with.
ConcTexts == {AllQuestions[1].TrueAnswer, "wrong"}
ConcPositions == 1..NumOfQuestions
ConcUserIDs == {1}
ConcAttemptIDs == {1}

Call(p) ==
    \/ \E testID \in TestIDs, userID \in ConcUserIDs : CallCreateAttempt(p, testID, userID)
    \/ \E attemptID \in ConcAttemptIDs, questionPos \in ConcPositions, text \in ConcTexts :
         CallCreateAnswer(p, attemptID, questionPos, text)
    \/ \E attemptID \in ConcAttemptIDs : CallSubmitAttempt(p, attemptID)

\* ----------------------------------------------------------- access codes
\* CodeSpec creates access codes and runs the ValidateAccessCode calls of the
\* goroutines, interleaved at s.mu.Lock().
MaxUsesLimit == 2
MaxUsed == MaxUsesLimit + 1

\* A *uint64 or *time.Time: nil, or a pointer to v.
Nil == <<>>
Ptr(v) == <<v>>

CodeInfinity == "TEST-2025-INFINITY"
CodeNames == {CodeInfinity, "CODE-A"}
MaxUsesInputs == {Nil} \cup {Ptr(n) : n \in 0..MaxUsesLimit}
ExpiresInputs == {Nil} \cup {Ptr(t) : t \in 0..(MaxTime - 1)}

NewAccessCode(code, testID, maxUses, expiresAt) ==
    [Code |-> code, TestID |-> testID, MaxUses |-> maxUses, UsedCount |-> 0,
     ExpiresAt |-> expiresAt]

\* The code InitFillStore creates: test 1, no limit, no expiry.
BootstrapCodes == [c \in {CodeInfinity} |-> NewAccessCode(CodeInfinity, 1, Nil, Nil)]

\* A CreateAccessCode without the check of store.go:501-503, for comparison
\* with CreateAccessCodeOutcome.
CreateAccessCodeOverwriting(codes, tsts, code, testID, maxUses, expiresAt) ==
    IF testID \notin DOMAIN tsts THEN [accessCodes |-> codes, err |-> ErrTestNotFound]
    ELSE [accessCodes |-> MapPut(codes, code, NewAccessCode(code, testID, maxUses, expiresAt)),
          err |-> ErrNone]

\* What CreateAccessCode leaves in the accessCodes map and returns.
CreateAccessCodeOutcome(codes, tsts, code, testID, maxUses, expiresAt) ==
    IF testID \notin DOMAIN tsts THEN [accessCodes |-> codes, err |-> ErrTestNotFound]
    ELSE IF code \in DOMAIN codes THEN [accessCodes |-> codes, err |-> ErrCodeExists]
    ELSE [accessCodes |-> MapPut(codes, code, NewAccessCode(code, testID, maxUses, expiresAt)),
          err |-> ErrNone]

\* accessCode.ExpiresAt != nil && time.Now().After(*accessCode.ExpiresAt)
CodeExpired(accessCode, t) == accessCode.ExpiresAt # Nil /\ t > accessCode.ExpiresAt[1]

\* Two other readings of the usage limit, for comparison with LimitReached:
\* one without the check, one that lets the call at the limit through.
LimitNeverReached(accessCode) == FALSE

LimitReachedLate(accessCode) ==
    accessCode.MaxUses # Nil /\ accessCode.UsedCount > accessCode.MaxUses[1]

\* accessCode.MaxUses != nil && accessCode.UsedCount >= *accessCode.MaxUses
LimitReached(accessCode) ==
    accessCode.MaxUses # Nil /\ accessCode.UsedCount >= accessCode.MaxUses[1]

\* A ValidateAccessCode that looks at the expiry before the test, for
\* comparison with ValidateAccessCodeOutcome.
ValidateExpiryFirst(codes, t, code, testID) ==
    IF code \notin DOMAIN codes THEN [accessCodes |-> codes, err |-> ErrInvalidCode]
    ELSE IF CodeExpired(codes[code], t) THEN [accessCodes |-> codes, err |-> ErrCodeExpired]
    ELSE IF codes[code].TestID # testID THEN [accessCodes |-> codes, err |-> ErrWrongTest]
    ELSE IF LimitReached(codes[code]) THEN [accessCodes |-> codes, err |-> ErrLimitReached]
    ELSE [accessCodes |-> [codes EXCEPT ![code].UsedCount = @ + 1], err |-> ErrNone]

\* What ValidateAccessCode leaves in the accessCodes map and returns.
ValidateAccessCodeOutcome(codes, t, code, testID) ==
    IF code \notin DOMAIN codes THEN [accessCodes |-> codes, err |-> ErrInvalidCode]
    ELSE IF codes[code].TestID # testID THEN [accessCodes |-> codes, err |-> ErrWrongTest]
    ELSE IF CodeExpired(codes[code], t) THEN [accessCodes |-> codes, err |-> ErrCodeExpired]
    ELSE IF LimitReached(codes[code]) THEN [accessCodes |-> codes, err |-> ErrLimitReached]
    ELSE [accessCodes |-> [codes EXCEPT ![code].UsedCount = @ + 1], err |-> ErrNone]

\* CreateAccessCode, store.go:491-517: the whole call runs under s.mu.Lock(),
\* so it takes effect at once, when no goroutine holds the lock.
CreateAccessCode(code, testID, maxUses, expiresAt) ==
    /\ mu.w = 0
    /\ NoReaders
    /\ accessCodes' = CreateAccessCodeOutcome(accessCodes, tests, code, testID,
                                              maxUses, expiresAt).accessCodes
    /\ UNCHANGED <<userVars, sessionVars, aiThreads, openai, storeVars, validated, now, procVars>>

CallValidateAccessCode(p, code, testID) ==
    /\ pc[p] = "idle"
    /\ code \in DOMAIN accessCodes => accessCodes[code].UsedCount < MaxUsed
    /\ loc' = [loc EXCEPT ![p] = [NoLocals EXCEPT !.op = "ValidateAccessCode", !.code = code,
                   !.testID = testID, !.err = Pending]]
    /\ pc' = [pc EXCEPT ![p] = "vc_lock"]
    /\ UNCHANGED <<userVars, sessionVars, aiThreads, openai, storeVars, codeVars, now, mu>>

\* s.mu.Lock(), store.go:521.
CodeLock(p) ==
    /\ pc[p] = "vc_lock"
    /\ mu.w = 0
    /\ NoReaders
    /\ mu' = [mu EXCEPT !.w = p]
    /\ pc' = [pc EXCEPT ![p] = "vc_body"]
    /\ UNCHANGED <<userVars, sessionVars, aiThreads, openai, storeVars, codeVars, now, loc>>

\* store.go:524-547 under the lock, and the deferred Unlock.
ValidateAccessCodeBody(p) ==
    /\ pc[p] = "vc_body"
    /\ LET out == ValidateAccessCodeOutcome(accessCodes, now, loc[p].code, loc[p].testID)
       IN /\ accessCodes' = out.accessCodes
          /\ loc' = [loc EXCEPT ![p] = Returned(@, out.err)]
          /\ validated' = IF out.err = ErrNone
                          THEN [validated EXCEPT ![loc[p].code] = @ + 1]
                          ELSE validated
    /\ mu' = [mu EXCEPT !.w = 0]
    /\ pc' = [pc EXCEPT ![p] = "idle"]
    /\ UNCHANGED <<userVars, sessionVars, aiThreads, openai, storeVars, now>>

CodeStep(p) ==
    \/ CodeLock(p)
    \/ ValidateAccessCodeBody(p)

CodeCall(p) == \E code \in CodeNames, testID \in TestIDs : CallValidateAccessCode(p, code, testID)

\* ----------------------------------------------------- CheckDeadline calls
\* A call of CheckDeadline on its own (as handler.SentMassage makes it).
CallCheckDeadline(p, attemptID) ==
    /\ pc[p] = "idle"
    /\ loc' = [loc EXCEPT ![p] = [NoLocals EXCEPT !.op = "CheckDeadline",
                   !.attemptID = attemptID,
                   !.err = CheckDeadline(attempts, tests, now, attemptID)]]
    /\ UNCHANGED <<userVars, sessionVars, aiThreads, openai, storeVars, codeVars, now, mu, pc>>

\* The catalogs the selection is examined on: test 1 with the first k
\* questions of the seed, of which n are asked for.
SelectMax == 3
SelectTests ==
    {[BootstrapTests EXCEPT ![1].Questions = SubSeq(AllQuestions, 1, k),
                            ![1].NumOfQuestions = n] :
        k \in 1..Min(SelectMax, Len(AllQuestions)), n \in 0..(SelectMax + 1)}

\* The catalogs the deadline is examined on: test 1 with every time limit from
\* none (0) to TimeLimit.
DeadlineTests == {[BootstrapTests EXCEPT ![1].TimeLimit = l] : l \in 0..TimeLimit}

\* ------------------------------------------------------------------ users
\* UserSpec runs the CreateUser calls of the goroutines, interleaved at
\* s.mu.Lock() with each other, with CreateAttempt and with AuthenticateUser.
SeedEmail == "user@test.test"
SeedPassword == "test"
\* A password of more than 72 bytes, which bcrypt.GenerateFromPassword refuses.
TooLongPassword == "a password of 73 bytes"
Emails == {SeedEmail, "a@test.test", "b@test.test"}
Passwords == {SeedPassword, "secret", TooLongPassword}
\* The salts bcrypt draws.
Salts == {"salt1", "salt2"}

HashAccepts(password) == password # TooLongPassword

\* bcrypt.GenerateFromPassword: the hash carries its salt and the digest of the
\* salted password.
GenerateFromPassword(password, salt) == [salt |-> salt, digest |-> <<salt, password>>]

\* bcrypt.CompareHashAndPassword: the password is hashed with the salt of the
\* stored hash and the digests are compared.
CompareHashAndPassword(hash, password) ==
    GenerateFromPassword(password, hash.salt).digest = hash.digest

NewUser(id, email, hashedPassword) == [ID |-> id, Email |-> email, Password |-> hashedPassword]

\* The user InitFillStore creates.
BootstrapUsers ==
    [u \in {1} |-> NewUser(1, SeedEmail, GenerateFromPassword(SeedPassword, "salt1"))]
BootstrapUsersByEmail == [e \in {SeedEmail} |-> 1]

\* A CreateUser that does not put the user into the email index, for
\* comparison with CreateUserOutcome.
CreateUserUnindexed(usrs, byEmail, nuid, email, password, salt) ==
    IF email \in DOMAIN byEmail
    THEN [users |-> usrs, usersByEmail |-> byEmail, nextUserID |-> nuid, err |-> ErrUserExists]
    ELSE IF ~HashAccepts(password)
    THEN [users |-> usrs, usersByEmail |-> byEmail, nextUserID |-> nuid, err |-> ErrHash]
    ELSE [users |-> MapPut(usrs, nuid, NewUser(nuid, email, GenerateFromPassword(password, salt))),
          usersByEmail |-> byEmail,
          nextUserID |-> nuid + 1,
          err |-> ErrNone]

\* A CreateUser without the check of the email index, for comparison with
\* CreateUserOutcome.
CreateUserUnchecked(usrs, byEmail, nuid, email, password, salt) ==
    IF ~HashAccepts(password)
    THEN [users |-> usrs, usersByEmail |-> byEmail, nextUserID |-> nuid, err |-> ErrHash]
    ELSE [users |-> MapPut(usrs, nuid, NewUser(nuid, email, GenerateFromPassword(password, salt))),
          usersByEmail |-> MapPut(byEmail, email, nuid),
          nextUserID |-> nuid + 1,
          err |-> ErrNone]

\* A CreateUser without nextUserID++, for comparison with CreateUserOutcome.
CreateUserNotAdvancing(usrs, byEmail, nuid, email, password, salt) ==
    IF email \in DOMAIN byEmail
    THEN [users |-> usrs, usersByEmail |-> byEmail, nextUserID |-> nuid, err |-> ErrUserExists]
    ELSE IF ~HashAccepts(password)
    THEN [users |-> usrs, usersByEmail |-> byEmail, nextUserID |-> nuid, err |-> ErrHash]
    ELSE [users |-> MapPut(usrs, nuid, NewUser(nuid, email, GenerateFromPassword(password, salt))),
          usersByEmail |-> MapPut(byEmail, email, nuid),
          nextUserID |-> nuid,
          err |-> ErrNone]

\* What CreateUser leaves in the store and returns, for the salt bcrypt draws.
CreateUserOutcome(usrs, byEmail, nuid, email, password, salt) ==
    IF email \in DOMAIN byEmail
    THEN [users |-> usrs, usersByEmail |-> byEmail, nextUserID |-> nuid, err |-> ErrUserExists]
    ELSE IF ~HashAccepts(password)
    THEN [users |-> usrs, usersByEmail |-> byEmail, nextUserID |-> nuid, err |-> ErrHash]
    ELSE [users |-> MapPut(usrs, nuid, NewUser(nuid, email, GenerateFromPassword(password, salt))),
          usersByEmail |-> MapPut(byEmail, email, nuid),
          nextUserID |-> nuid + 1,
          err |-> ErrNone]

\* An AuthenticateUser that does not verify the password, for comparison with
\* AuthenticateUserOutcome.
AuthenticateUnverified(usrs, byEmail, email, password) ==
    IF email \notin DOMAIN byEmail THEN [user |-> <<>>, err |-> ErrInvalidEmailOrPassword]
    ELSE [user |-> <<usrs[byEmail[email]]>>, err |-> ErrNone]

\* What AuthenticateUser returns.
AuthenticateUserOutcome(usrs, byEmail, email, password) ==
    IF email \notin DOMAIN byEmail THEN [user |-> <<>>, err |-> ErrInvalidEmailOrPassword]
    ELSE IF byEmail[email] \notin DOMAIN usrs THEN [user |-> <<>>, err |-> NilDereference]
    ELSE IF ~CompareHashAndPassword(usrs[byEmail[email]].Password, password)
    THEN [user |-> <<>>, err |-> ErrInvalidEmailOrPassword]
    ELSE [user |-> <<usrs[byEmail[email]]>>, err |-> ErrNone]

CallCreateUser(p, email, password) ==
    /\ pc[p] = "idle"
    /\ loc' = [loc EXCEPT ![p] = [NoLocals EXCEPT !.op = "CreateUser", !.email = email,
                   !.password = password, !.err = Pending]]
    /\ pc' = [pc EXCEPT ![p] = "cu_lock"]
    /\ UNCHANGED <<storeVars, userVars, sessionVars, aiThreads, openai, codeVars, now, mu>>

\* s.mu.Lock(), store.go:181.
UserLock(p) ==
    /\ pc[p] = "cu_lock"
    /\ mu.w = 0
    /\ mu' = [mu EXCEPT !.w = p]
    /\ pc' = [pc EXCEPT ![p] = "cu_body"]
    /\ UNCHANGED <<storeVars, userVars, sessionVars, aiThreads, openai, codeVars, now, loc>>

\* store.go:184-203 under the lock, and the deferred Unlock.
CreateUserBody(p) ==
    /\ pc[p] = "cu_body"
    /\ NoReaders
    /\ \E salt \in Salts :
         LET out == CreateUserOutcome(users, usersByEmail, nextUserID, loc[p].email,
                                      loc[p].password, salt)
         IN /\ users' = out.users
            /\ usersByEmail' = out.usersByEmail
            /\ nextUserID' = out.nextUserID
            /\ created' = IF out.err = ErrNone
                          THEN [created EXCEPT ![loc[p].email] = @ + 1]
                          ELSE created
            /\ loc' = [loc EXCEPT ![p] = Returned(@, out.err)]
    /\ mu' = [mu EXCEPT !.w = 0]
    /\ pc' = [pc EXCEPT ![p] = "idle"]
    /\ UNCHANGED <<tests, attempts, sessionVars, aiThreads, openai, codeVars, now>>

\* The goroutine is in CreateUser past s.mu.Lock() with an email that is not
\* indexed: the check of store.go:184 lets it through and its next statement is
\* bcrypt.GenerateFromPassword (188).
Hashing(p) == pc[p] = "cu_body" /\ loc[p].email \notin DOMAIN usersByEmail

\* AuthenticateUser, store.go:259-274: the whole call runs under s.mu.RLock()
\* and only reads, so it takes effect at once, when no writer is announced.
AuthenticateUser(p, email, password) ==
    /\ pc[p] = "idle"
    /\ RLockOpen
    /\ LET out == AuthenticateUserOutcome(users, usersByEmail, email, password)
       IN loc' = [loc EXCEPT ![p] = [NoLocals EXCEPT !.op = "AuthenticateUser",
                      !.userID = IF out.user = <<>> THEN 0 ELSE out.user[1].ID,
                      !.err = out.err]]
    /\ UNCHANGED <<storeVars, userVars, sessionVars, aiThreads, openai, codeVars, now, mu, pc>>

UserStep(p) ==
    \/ UserLock(p)
    \/ CreateUserBody(p)

UserCall(p) ==
    \/ \E email \in Emails, password \in Passwords : CallCreateUser(p, email, password)
    \/ \E email \in Emails, password \in Passwords : AuthenticateUser(p, email, password)

\* IdSpec runs CreateUser and CreateAttempt, the two calls that advance
\* nextUserID, in concurrent goroutines.
IdStep(p) ==
    \/ UserStep(p)
    \/ AttemptLock(p)
    \/ AttemptInsert(p)

IdCall(p) ==
    \/ \E email \in Emails : CallCreateUser(p, email, "secret")
    \/ CallCreateAttempt(p, 1, 1)

\* --------------------------------------------------------------- sessions
\* SessionSpec creates, resolves and deletes sessions while a second user
\* registers. CreateSession and DeleteSession run under s.mu.Lock() from entry
\* to return and GetUserBySession under s.mu.RLock(), so each takes effect at
\* once, when the lock is free.
Tokens == {"s1", "s2", "s3"}

\* s.sessions[sessionID] = userID
CreateSessionOutcome(sess, sessionID, userID) == MapPut(sess, sessionID, userID)

\* A logout that ends every session, for comparison with DeleteSessionOutcome.
DeleteEverySession(sess, sessionID) == EmptyMap

\* delete(s.sessions, sessionID)
DeleteSessionOutcome(sess, sessionID) == MapRemove(sess, sessionID)

\* What GetUserBySession returns.
GetUserBySession(sess, usrs, sessionID) ==
    IF sessionID \notin DOMAIN sess THEN [user |-> <<>>, found |-> FALSE]
    ELSE IF sess[sessionID] \notin DOMAIN usrs THEN [user |-> <<>>, found |-> FALSE]
    ELSE [user |-> <<usrs[sess[sessionID]]>>, found |-> TRUE]

\* CreateSession, store.go:276-284, called with the id of a user the store has
\* returned (handler.go:139-145); uuid.NewString() returns an id it has not
\* returned before.
CreateSession(userID) ==
    /\ mu.w = 0
    /\ NoReaders
    /\ userID \in DOMAIN users
    /\ \E sessionID \in Tokens \ DOMAIN issued :
         /\ sessions' = CreateSessionOutcome(sessions, sessionID, userID)
         /\ issued' = MapPut(issued, sessionID, userID)
    /\ UNCHANGED <<storeVars, userVars, aiThreads, openai, codeVars, now, procVars>>

\* DeleteSession, store.go:286-291.
DeleteSession(sessionID) ==
    /\ mu.w = 0
    /\ NoReaders
    /\ sessions' = DeleteSessionOutcome(sessions, sessionID)
    /\ UNCHANGED <<storeVars, userVars, issued, aiThreads, openai, codeVars, now, procVars>>

\* A call of GetUserBySession (as middleware.Auth makes it).
CallGetUserBySession(p, sessionID) ==
    /\ pc[p] = "idle"
    /\ RLockOpen
    /\ LET out == GetUserBySession(sessions, users, sessionID)
       IN loc' = [loc EXCEPT ![p] = [NoLocals EXCEPT !.op = "GetUserBySession",
                      !.userID = IF out.found THEN out.user[1].ID ELSE 0,
                      !.err = IF out.found THEN ErrNone ELSE ErrSessionNotFound]]
    /\ UNCHANGED <<storeVars, userVars, sessionVars, aiThreads, openai, codeVars, now, mu, pc>>

\* ---------------------------------------------------------------- history
\* HistorySpec submits attempts at different times and reads the history of a
\* user and a test.
HistoryMax == 3

\* The enumerations of the set S: the orders in which a range over a map with
\* the keys S can visit them.
Orders(S) ==
    {f \in [1..Cardinality(S) -> S] : \A i, j \in 1..Cardinality(S) : f[i] = f[j] => i = j}

\* A filter that lets attempts of any status through, for comparison with
\* HistoryMatches.
HistoryMatchesAnyStatus(attempt, userID, testID) ==
    attempt.UserID = userID /\ attempt.TestID = testID

\* store.go:564: the attempts that go into the history.
HistoryMatches(attempt, userID, testID) ==
    attempt.UserID = userID /\ attempt.TestID = testID /\ attempt.Status = "submitted"

\* The opposite comparison, for comparison with FinishedBefore.
FinishedAfter(a, b) == a.FinishedAt > b.FinishedAt

\* history[i].FinishedAt.Before(history[j].FinishedAt)
FinishedBefore(a, b) == a.FinishedAt < b.FinishedAt

Swapped(history, i, j) ==
    [k \in 1..Len(history) |->
        IF k = i THEN history[j] ELSE IF k = j THEN history[i] ELSE history[k]]

\* The two loops of store.go:570-576, from the indices i and j on.
RECURSIVE SortFrom(_, _, _)
SortFrom(history, i, j) ==
    IF i > Len(history) THEN history
    ELSE IF j > Len(history) THEN SortFrom(history, i + 1, i + 2)
    ELSE IF FinishedBefore(history[i], history[j])
         THEN SortFrom(Swapped(history, i, j), i, j + 1)
    ELSE SortFrom(history, i, j + 1)

\* What GetUserAttemptHistory returns when the range over s.attempts visits
\* the attempts in the order given.
GetUserAttemptHistoryOutcome(atts, tsts, userID, testID, order) ==
    IF testID \notin DOMAIN tsts THEN [history |-> <<>>, err |-> ErrTestNotFound]
    ELSE LET visited == [i \in 1..Len(order) |-> atts[order[i]]]
             Matches(attempt) == HistoryMatches(attempt, userID, testID)
         IN [history |-> SortFrom(SelectSeq(visited, Matches), 1, 2), err |-> ErrNone]

\* A call of GetUserAttemptHistory: under s.mu.RLock() from entry to return,
\* reading only.
CallGetUserAttemptHistory(p, userID, testID) ==
    /\ pc[p] = "idle"
    /\ RLockOpen
    /\ \E order \in Orders(DOMAIN attempts) :
         LET out == GetUserAttemptHistoryOutcome(attempts, tests, userID, testID, order)
         IN loc' = [loc EXCEPT ![p] = [NoLocals EXCEPT !.op = "GetUserAttemptHistory",
                        !.userID = userID,
                        !.testID = testID,
                        !.built = [i \in 1..Len(out.history) |-> out.history[i].ID],
                        !.err = out.err]]
    /\ UNCHANGED <<storeVars, userVars, sessionVars, aiThreads, openai, codeVars, now, mu, pc>>

\* The stores the history is read from: up to HistoryMax attempts on test 1,
\* started at time 0 by any of the users.
HistoryAttempts ==
    UNION {[1..n -> {NewAttempt(0, 1, userID,
                                SelectedQuestions(BootstrapTests[1].Questions, NumOfQuestions), 0) :
                         userID \in UserIDs}] : n \in 0..HistoryMax}

\* ---------------------------------------------------- GetAttemptQuestions
\* A lookup that takes the question id for the place of the question in the
\* test, for comparison with FindQuestionByID.
FindQuestionAtPlace(tsts, testID, questionID) ==
    IF testID \notin DOMAIN tsts THEN <<>>
    ELSE IF questionID \in 1..Len(tsts[testID].Questions)
         THEN <<tsts[testID].Questions[questionID]>>
    ELSE <<>>

\* findQuestionByID, store.go:342-355: the first question of the test with
\* the id (<<>>: none).
FindQuestionByID(tsts, testID, questionID) ==
    IF testID \notin DOMAIN tsts THEN <<>>
    ELSE LET found == {i \in 1..Len(tsts[testID].Questions) :
                         tsts[testID].Questions[i].ID = questionID}
         IN IF found = {} THEN <<>>
            ELSE <<tsts[testID].Questions[CHOOSE i \in found : \A k \in found : i <= k]>>

\* What GetAttemptQuestions returns.
GetAttemptQuestionsOutcome(atts, tsts, attemptID) ==
    IF attemptID \notin DOMAIN atts THEN [questions |-> <<>>, err |-> ErrAttemptNotFound]
    ELSE LET attempt == atts[attemptID]
             looked == [i \in 1..Len(attempt.Answers) |->
                          FindQuestionByID(tsts, attempt.TestID, attempt.Answers[i].QuestionID)]
         IN IF \E i \in 1..Len(looked) : looked[i] = <<>>
            THEN [questions |-> <<>>, err |-> ErrQuestionNotFound]
            ELSE [questions |-> [i \in 1..Len(looked) |-> looked[i][1]], err |-> ErrNone]

\* A call of GetAttemptQuestions: under s.mu.RLock() from entry to return,
\* reading only.
CallGetAttemptQuestions(p, attemptID) ==
    /\ pc[p] = "idle"
    /\ RLockOpen
    /\ LET out == GetAttemptQuestionsOutcome(attempts, tests, attemptID)
       IN loc' = [loc EXCEPT ![p] = [NoLocals EXCEPT !.op = "GetAttemptQuestions",
                      !.attemptID = attemptID,
                      !.built = [i \in 1..Len(out.questions) |-> out.questions[i].ID],
                      !.err = out.err]]
    /\ UNCHANGED <<storeVars, userVars, sessionVars, aiThreads, openai, codeVars, now, mu, pc>>

\* ----------------------------------------------------------- CreateAIThread
ThreadIDs == {"t1", "t2"}

\* A key that adds the position to the attempt id, for comparison with AIKey.
AIKeySum(attemptID, questionPosition) == attemptID + questionPosition

\* key := attemptID*1000 + questionPosition. The attempt ids of the store are
\* below MaxAttempts + 2 and a position is at most the number of answers, so
\* the uint64 product never wraps.
AIKey(attemptID, questionPosition) == attemptID * 1000 + questionPosition

\* A CreateAIThread that stores without looking for an existing thread, for
\* comparison with CreateAIThreadOutcome.
CreateAIThreadOverwriting(threads, atts, attemptID, questionPosition, threadID, t) ==
    IF attemptID \notin DOMAIN atts THEN [aiThreads |-> threads, err |-> ErrAttemptNotFound]
    ELSE IF questionPosition > Len(atts[attemptID].Answers) \/ questionPosition = 0
    THEN [aiThreads |-> threads, err |-> ErrInvalidPosition]
    ELSE [aiThreads |-> MapPut(threads, AIKey(attemptID, questionPosition),
                               [AttemptID |-> attemptID, ThreadID |-> threadID,
                                Status |-> "active", CreatedAt |-> t]),
          err |-> ErrNone]

\* A CreateAIThread that refuses a bound position 1 like any other position,
\* for comparison with CreateAIThreadOutcome.
CreateAIThreadSingle(threads, atts, attemptID, questionPosition, threadID, t) ==
    IF AIKey(attemptID, questionPosition) \in DOMAIN threads /\ attemptID \in DOMAIN atts
       /\ questionPosition \in 1..Len(atts[attemptID].Answers)
    THEN [aiThreads |-> threads, err |-> ErrThreadExists]
    ELSE CreateAIThreadOverwriting(threads, atts, attemptID, questionPosition, threadID, t)

\* What CreateAIThread leaves in s.aiThreads and returns, called at time t.
CreateAIThreadOutcome(threads, atts, attemptID, questionPosition, threadID, t) ==
    IF attemptID \notin DOMAIN atts THEN [aiThreads |-> threads, err |-> ErrAttemptNotFound]
    ELSE IF questionPosition > Len(atts[attemptID].Answers) \/ questionPosition = 0
    THEN [aiThreads |-> threads, err |-> ErrInvalidPosition]
    ELSE IF questionPosition # 1 /\ AIKey(attemptID, questionPosition) \in DOMAIN threads
    THEN [aiThreads |-> threads, err |-> ErrThreadExists]
    ELSE [aiThreads |-> MapPut(threads, AIKey(attemptID, questionPosition),
                               [AttemptID |-> attemptID, ThreadID |-> threadID,
                                Status |-> "active", CreatedAt |-> t]),
          err |-> ErrNone]

\* CreateAIThread: under s.mu.Lock() from entry to return.
CreateAIThread(attemptID, questionPosition, threadID) ==
    /\ mu.w = 0
    /\ NoReaders
    /\ LET out == CreateAIThreadOutcome(aiThreads, attempts, attemptID,
                                        questionPosition, threadID, now)
       IN /\ aiThreads' = out.aiThreads
          \* loc keeps the call's arguments, its error, and in read whether
          \* the key had a thread when the call began (1) or not (0).
          /\ loc' = [loc EXCEPT ![1] = [NoLocals EXCEPT !.op = "CreateAIThread",
                         !.attemptID = attemptID, !.questionPos = questionPosition,
                         !.text = threadID,
                         !.read = IF AIKey(attemptID, questionPosition) \in DOMAIN aiThreads
                                  THEN 1 ELSE 0,
                         !.err = out.err]]
    /\ UNCHANGED <<storeVars, userVars, sessionVars, openai, codeVars, now, mu, pc>>

\* ---------------------------------------------------------------- handlers
\* The requests of the protected routes (router.go:21-45): each passes
\* AuthMiddleware and then its handler. A request carries the session_id
\* cookie of a token, or none.
NoCookie == "no cookie"
Cookies == Tokens \cup {NoCookie}
ErrNoCookie == "no session cookie"
ErrInvalidSession == "invalid session"
ErrCodeRequired == "access code is required"
ErrInternal == "internal server error"

\* A middleware that lets every token through that CreateSession ever
\* returned, for comparison with AuthMiddlewareOutcome.
AuthMiddlewareTrusting(sess, usrs, cookie) ==
    IF cookie \in DOMAIN issued /\ issued[cookie] \in DOMAIN usrs
    THEN [next |-> TRUE, userID |-> issued[cookie], err |-> ErrNone]
    ELSE [next |-> FALSE, userID |-> 0, err |-> ErrInvalidSession]

\* AuthMiddleware, middleware.go:80-105: whether next.ServeHTTP runs, and the
\* user id it finds in its context. (r.Cookie fails with http.ErrNoCookie only.)
AuthMiddlewareOutcome(sess, usrs, cookie) ==
    IF cookie = NoCookie THEN [next |-> FALSE, userID |-> 0, err |-> ErrNoCookie]
    ELSE LET out == GetUserBySession(sess, usrs, cookie)
         IN IF ~out.found THEN [next |-> FALSE, userID |-> 0, err |-> ErrInvalidSession]
            ELSE [next |-> TRUE, userID |-> out.user[1].ID, err |-> ErrNone]

\* A request to a protected route, up to the call of its handler.
AuthMiddleware(cookie) ==
    /\ RLockOpen
    /\ LET auth == AuthMiddlewareOutcome(sessions, users, cookie)
       IN loc' = [loc EXCEPT ![1] = [NoLocals EXCEPT !.op = "AuthMiddleware",
                      !.token = cookie, !.userID = auth.userID, !.err = auth.err]]
    /\ UNCHANGED <<storeVars, userVars, sessionVars, aiThreads, openai, codeVars, now, mu, pc>>

\* Handler.StartAttempt, handler.go:270-310, for the user id of the context:
\* what it leaves in the store, the id of the attempt it answers with (0: none)
\* and the uses of the access code it consumed. handler.go:304 hands
\* (userId, testID) to CreateAttempt(testID, userID).
StartAttemptOutcome(codes, atts, tsts, nuid, t, userId, testID, accessCode, perm) ==
    LET refused(err) == [accessCodes |-> codes, tests |-> tsts, attempts |-> atts,
                         nextUserID |-> nuid, attemptID |-> 0, used |-> 0, err |-> err]
    IN IF accessCode = "" THEN refused(ErrCodeRequired)
       ELSE LET valid == ValidateAccessCodeOutcome(codes, t, accessCode, testID)
            IN IF valid.err # ErrNone THEN refused(valid.err)
               ELSE LET made == CreateAttemptOutcome(atts, tsts, nuid, t, userId, testID, perm)
                    IN [accessCodes |-> valid.accessCodes, tests |-> made.tests,
                        attempts |-> made.attempts, nextUserID |-> made.nextUserID,
                        attemptID |-> IF made.err = ErrNone THEN NextAttemptID(atts) ELSE 0,
                        used |-> 1,
                        err |-> IF made.err = ErrNone THEN ErrNone ELSE ErrInternal]

\* A POST /api/tests/{test_id}/attempt request, one at a time. loc keeps the
\* cookie, the user id of the context, the test_id and access code of the
\* request, the id of the attempt in the answer, in read the uses consumed, and
\* the error of the answer.
StartAttempt(cookie, testID, accessCode) ==
    /\ mu.w = 0
    /\ NoReaders
    /\ Cardinality(DOMAIN attempts) < MaxAttempts
    /\ accessCode \in DOMAIN accessCodes => accessCodes[accessCode].UsedCount < MaxUsed
    /\ LET auth == AuthMiddlewareOutcome(sessions, users, cookie)
       IN IF ~auth.next
          THEN /\ loc' = [loc EXCEPT ![1] = [NoLocals EXCEPT !.op = "StartAttempt",
                              !.token = cookie, !.testID = testID, !.code = accessCode,
                              !.err = auth.err]]
               /\ UNCHANGED <<storeVars, codeVars>>
          ELSE \E perm \in ShufflesOf(tests, auth.userID) :
                 LET out == StartAttemptOutcome(accessCodes, attempts, tests, nextUserID, now,
                                                auth.userID, testID, accessCode, perm)
                 IN /\ accessCodes' = out.accessCodes
                    /\ validated' = IF out.used = 1
                                    THEN [validated EXCEPT ![accessCode] = @ + 1]
                                    ELSE validated
                    /\ tests' = out.tests
                    /\ attempts' = out.attempts
                    /\ nextUserID' = out.nextUserID
                    /\ loc' = [loc EXCEPT ![1] = [NoLocals EXCEPT !.op = "StartAttempt",
                                   !.token = cookie, !.userID = auth.userID,
                                   !.testID = testID, !.code = accessCode,
                                   !.attemptID = out.attemptID, !.read = out.used,
                                   !.err = out.err]]
    /\ UNCHANGED <<userVars, sessionVars, aiThreads, openai, now, mu, pc>>

\* ------------------------------------------------------------ send message
\* Handler.SentMassage, handler.go:406-483, step by step for one request at a
\* time: the checks of the request, CheckDeadline under the Store's read lock,
\* then the calls of the assistant's client. loc keeps the attempt id, in read
\* whether CheckDeadline returned nil (1), in built the client calls made so
\* far, in text the last run status WaitForCompletion saw, and the error of
\* the answer.
MaxWait == 2
RunStatuses == {"queued", "in_progress", "cancelling", "completed", "failed", "cancelled",
                "expired", "requires_action"}
ErrThreadRequired == "thread_id is required"
ErrMessageEmpty == "message cannot be empty"
ErrOpenAI == "openai http error"
ErrNoResponse == "failed to get response"
ErrWaitTimeout == "timeout waiting for assistant completion"
ErrRunFailed == "run failed with status"
ErrUnknownStatus == "unknown run status"
ErrCtx == "context canceled"
Continue == "continue"

\* A switch that keeps waiting on a status it does not know, for comparison
\* with WaitVerdict.
WaitVerdictPatient(status) ==
    IF status = "completed" THEN ErrNone
    ELSE IF status \in {"failed", "cancelled", "expired"} THEN ErrRunFailed
    ELSE Continue

\* The switch on run.Status in WaitForCompletion, part_002:213-225: what the
\* call returns, or Continue.
WaitVerdict(status) ==
    IF status = "completed" THEN ErrNone
    ELSE IF status \in {"failed", "cancelled", "expired"} THEN ErrRunFailed
    ELSE IF status \in {"queued", "in_progress", "cancelling"} THEN Continue
    ELSE ErrUnknownStatus

\* handler.go:407-433: the request is read and refused if thread_id or message
\* is empty.
SentMassage(p, threadID, attemptID, message) ==
    /\ pc[p] = "idle"
    /\ IF threadID = "" \/ message = ""
       THEN /\ loc' = [loc EXCEPT ![p] = [NoLocals EXCEPT !.op = "SentMassage",
                           !.err = IF threadID = "" THEN ErrThreadRequired
                                   ELSE ErrMessageEmpty]]
            /\ UNCHANGED pc
       ELSE /\ loc' = [loc EXCEPT ![p] = [NoLocals EXCEPT !.op = "SentMassage",
                           !.attemptID = attemptID, !.err = Pending]]
            /\ pc' = [pc EXCEPT ![p] = "sm_rlock"]
    /\ openai' = NoRun
    /\ UNCHANGED <<storeVars, userVars, sessionVars, aiThreads, codeVars, now, mu>>

\* s.mu.RLock() of CheckDeadline (store.go:358), called at handler.go:436.
SendDeadlineRLock(p) ==
    /\ pc[p] = "sm_rlock"
    /\ RLockOpen
    /\ mu' = RLocked(p)
    /\ pc' = [pc EXCEPT ![p] = "sm_cd"]
    /\ UNCHANGED <<storeVars, userVars, sessionVars, aiThreads, openai, codeVars, now, loc>>

\* A handler that goes on to the assistant whatever CheckDeadline returned,
\* for comparison with SendDeadlineChecked.
SendDeadlineIgnored(p) ==
    /\ pc[p] = "sm_cd"
    /\ mu' = RUnlocked(p)
    /\ pc' = [pc EXCEPT ![p] = "sm_add"]
    /\ loc' = [loc EXCEPT ![p].read =
                  IF CheckDeadline(attempts, tests, now, loc[p].attemptID) = ErrNone
                  THEN 1 ELSE 0]
    /\ UNCHANGED <<storeVars, userVars, sessionVars, aiThreads, openai, codeVars, now>>

\* The body of CheckDeadline with its deferred RUnlock, and handler.go:436-439.
SendDeadlineChecked(p) ==
    /\ pc[p] = "sm_cd"
    /\ mu' = RUnlocked(p)
    /\ LET err == CheckDeadline(attempts, tests, now, loc[p].attemptID)
       IN IF err # ErrNone
          THEN /\ loc' = [loc EXCEPT ![p].err = err]
               /\ pc' = [pc EXCEPT ![p] = "idle"]
          ELSE /\ loc' = [loc EXCEPT ![p].read = 1]
               /\ pc' = [pc EXCEPT ![p] = "sm_add"]
    /\ UNCHANGED <<storeVars, userVars, sessionVars, aiThreads, openai, codeVars, now>>

\* h.Openai.AddMessage, handler.go:442-445: the service accepts the message or
\* the call fails.
SendAddMessage(p) ==
    /\ pc[p] = "sm_add"
    /\ \E ok \in BOOLEAN :
         /\ loc' = [loc EXCEPT ![p].built = Append(@, "AddMessage"),
                               ![p].err = IF ok THEN @ ELSE ErrOpenAI]
         /\ pc' = [pc EXCEPT ![p] = IF ok THEN "sm_run" ELSE "idle"]
    /\ UNCHANGED <<storeVars, userVars, sessionVars, aiThreads, openai, codeVars, now, mu>>

\* h.Openai.RunAssistant, handler.go:448-452, and the start of
\* WaitForCompletion (part_002:198-201): a new run is queued.
SendRunAssistant(p) ==
    /\ pc[p] = "sm_run"
    /\ \E ok \in BOOLEAN :
         /\ loc' = [loc EXCEPT ![p].built = Append(@, "RunAssistant"),
                               ![p].err = IF ok THEN @ ELSE ErrOpenAI]
         /\ pc' = [pc EXCEPT ![p] = IF ok THEN "sm_wait" ELSE "idle"]
         /\ openai' = IF ok THEN [NoRun EXCEPT !.status = "queued"] ELSE openai
    /\ UNCHANGED <<storeVars, userVars, sessionVars, aiThreads, codeVars, now, mu>>

\* case <-ticker.C, part_002:208-226: GetRunStatus fails, or the status it
\* returns goes through the switch.
WaitPoll(p) ==
    /\ pc[p] = "sm_wait"
    /\ openai.tick
    /\ openai' = [openai EXCEPT !.tick = FALSE]
    /\ \E ok \in BOOLEAN :
         IF ~ok
         THEN /\ loc' = [loc EXCEPT ![p].err = ErrOpenAI]
              /\ pc' = [pc EXCEPT ![p] = "idle"]
         ELSE LET verdict == WaitVerdict(openai.status)
              IN /\ loc' = [loc EXCEPT ![p].text = openai.status,
                                       ![p].err = IF verdict \in {Continue, ErrNone}
                                                  THEN @ ELSE verdict]
                 /\ pc' = [pc EXCEPT ![p] = IF verdict = Continue THEN "sm_wait"
                                            ELSE IF verdict = ErrNone THEN "sm_get"
                                            ELSE "idle"]
    /\ UNCHANGED <<storeVars, userVars, sessionVars, aiThreads, codeVars, now, mu>>

\* case <-timeout, part_002:206-207.
WaitTimeout(p) ==
    /\ pc[p] = "sm_wait"
    /\ openai.elapsed >= MaxWait
    /\ loc' = [loc EXCEPT ![p].err = ErrWaitTimeout]
    /\ pc' = [pc EXCEPT ![p] = "idle"]
    /\ UNCHANGED <<storeVars, userVars, sessionVars, aiThreads, openai, codeVars, now, mu>>

\* case <-ctx.Done(), part_002:204-205.
WaitCancelled(p) ==
    /\ pc[p] = "sm_wait"
    /\ openai.ctxDone
    /\ loc' = [loc EXCEPT ![p].err = ErrCtx]
    /\ pc' = [pc EXCEPT ![p] = "idle"]
    /\ UNCHANGED <<storeVars, userVars, sessionVars, aiThreads, openai, codeVars, now, mu>>

\* h.Openai.GetMessages and the answer, handler.go:461-482.
SendGetMessages(p) ==
    /\ pc[p] = "sm_get"
    /\ \E ok \in BOOLEAN :
         loc' = [loc EXCEPT ![p].built = Append(@, "GetMessages"),
                            ![p].err = IF ok THEN ErrNone ELSE ErrNoResponse]
    /\ pc' = [pc EXCEPT ![p] = "idle"]
    /\ UNCHANGED <<storeVars, userVars, sessionVars, aiThreads, openai, codeVars, now, mu>>

\* The service moves a run that has not ended to another status.
RunProgress(status) ==
    /\ pc[1] = "sm_wait"
    /\ openai.status \in {"queued", "in_progress", "cancelling"}
    /\ status # openai.status
    /\ openai' = [openai EXCEPT !.status = status]
    /\ UNCHANGED <<storeVars, userVars, sessionVars, aiThreads, codeVars, now, procVars>>

\* A second passes while WaitForCompletion waits: the ticker has a tick
\* waiting (its channel holds one), and after MaxWait seconds the timeout
\* channel is ready and stays so.
WaitClock ==
    /\ pc[1] = "sm_wait"
    /\ openai' = [openai EXCEPT !.tick = TRUE,
                                !.elapsed = IF @ < MaxWait THEN @ + 1 ELSE @]
    /\ UNCHANGED <<storeVars, userVars, sessionVars, aiThreads, codeVars, now, procVars>>

\* The client goes away: the request's context is cancelled.
CtxCancel ==
    /\ pc[1] = "sm_wait"
    /\ ~openai.ctxDone
    /\ openai' = [openai EXCEPT !.ctxDone = TRUE]
    /\ UNCHANGED <<storeVars, userVars, sessionVars, aiThreads, codeVars, now, procVars>>

\* ---------------------------------------------------------- specification
\* NewStore followed by InitFillStore (which creates the seed user: id 1).
Init ==
    /\ tests = BootstrapTests
    /\ attempts = EmptyMap
    /\ nextUserID = 2
    /\ users = BootstrapUsers
    /\ usersByEmail = BootstrapUsersByEmail
    /\ created = [e \in Emails |-> IF e \in DOMAIN BootstrapUsersByEmail THEN 1 ELSE 0]
    /\ sessions = EmptyMap
    /\ issued = EmptyMap
    /\ aiThreads = EmptyMap
    /\ openai = NoRun
    /\ accessCodes = BootstrapCodes
    /\ validated = [c \in CodeNames |-> 0]
    /\ now = 0
    /\ mu = MuFree
    /\ pc = [p \in Procs |-> "idle"]
    /\ loc = [p \in Procs |-> NoLocals]

Next ==
    \/ \E testID \in TestIDs, userID \in UserIDs : CreateAttempt(testID, userID)
    \/ \E attemptID \in AttemptIDs, questionPos \in Positions, text \in Texts :
         CreateAnswer(attemptID, questionPos, text)
    \/ \E attemptID \in AttemptIDs : SubmitAttempt(attemptID)
    \/ Tick

Spec == Init /\ [][Next]_vars

ConcNext == \E p \in Procs : Call(p) \/ Step(p)

ConcSpec == Init /\ [][ConcNext]_vars

\* The access codes, used by concurrent goroutines while the clock runs.
CodeNext ==
    \/ \E code \in CodeNames, testID \in TestIDs, maxUses \in MaxUsesInputs,
          expiresAt \in ExpiresInputs :
         CreateAccessCode(code, testID, maxUses, expiresAt)
    \/ \E p \in Procs : CodeCall(p) \/ CodeStep(p)
    \/ Tick

CodeSpec == Init /\ [][CodeNext]_vars

\* CreateAttempt on the catalogs of SelectTests.
SelectInit ==
    /\ tests \in SelectTests
    /\ attempts = EmptyMap
    /\ nextUserID = 2
    /\ users = BootstrapUsers
    /\ usersByEmail = BootstrapUsersByEmail
    /\ created = [e \in Emails |-> IF e \in DOMAIN BootstrapUsersByEmail THEN 1 ELSE 0]
    /\ sessions = EmptyMap
    /\ issued = EmptyMap
    /\ aiThreads = EmptyMap
    /\ openai = NoRun
    /\ accessCodes = BootstrapCodes
    /\ validated = [c \in CodeNames |-> 0]
    /\ now = 0
    /\ mu = MuFree
    /\ pc = [p \in Procs |-> "idle"]
    /\ loc = [p \in Procs |-> NoLocals]

SelectNext ==
    \/ \E testID \in TestIDs, userID \in UserIDs : CreateAttempt(testID, userID)
    \/ \E attemptID \in AttemptIDs : CallGetAttemptQuestions(1, attemptID)

SelectSpec == SelectInit /\ [][SelectNext]_vars

\* AISpec: attempts of two answers are created and AI threads are bound to
\* their question positions.
AIAnswers == 2
AIPositions == 0..(AIAnswers + 2)
AIInit ==
    /\ SelectInit
    /\ Len(tests[1].Questions) = AIAnswers
    /\ tests[1].NumOfQuestions = AIAnswers

AINext ==
    \/ \E testID \in TestIDs, userID \in UserIDs : CreateAttempt(testID, userID)
    \/ \E attemptID \in AttemptIDs, questionPosition \in AIPositions, threadID \in ThreadIDs :
           CreateAIThread(attemptID, questionPosition, threadID)

AISpec == AIInit /\ [][AINext]_vars


\* CheckDeadline on the catalogs of DeadlineTests, as attempts start and the
\* clock runs.
DeadlineInit ==
    /\ tests \in DeadlineTests
    /\ attempts = EmptyMap
    /\ nextUserID = 2
    /\ users = BootstrapUsers
    /\ usersByEmail = BootstrapUsersByEmail
    /\ created = [e \in Emails |-> IF e \in DOMAIN BootstrapUsersByEmail THEN 1 ELSE 0]
    /\ sessions = EmptyMap
    /\ issued = EmptyMap
    /\ aiThreads = EmptyMap
    /\ openai = NoRun
    /\ accessCodes = BootstrapCodes
    /\ validated = [c \in CodeNames |-> 0]
    /\ now = 0
    /\ mu = MuFree
    /\ pc = [p \in Procs |-> "idle"]
    /\ loc = [p \in Procs |-> NoLocals]

DeadlineNext ==
    \/ \E testID \in TestIDs, userID \in UserIDs : CreateAttempt(testID, userID)
    \/ \E p \in Procs, attemptID \in AttemptIDs : CallCheckDeadline(p, attemptID)
    \/ Tick

DeadlineSpec == DeadlineInit /\ [][DeadlineNext]_vars

\* The users, created by concurrent goroutines.
UserNext == \E p \in Procs : UserCall(p) \/ UserStep(p)

UserSpec == Init /\ [][UserNext]_vars

\* The id counter, advanced by concurrent CreateUser and CreateAttempt calls.
IdNext == \E p \in Procs : IdCall(p) \/ IdStep(p)

IdSpec == Init /\ [][IdNext]_vars

\* The sessions of the seed user and of a user who registers meanwhile.
SessionNext ==
    \/ \E userID \in UserIDs : CreateSession(userID)
    \/ \E sessionID \in Tokens : DeleteSession(sessionID)
    \/ \E cookie \in Cookies : AuthMiddleware(cookie)
    \/ \E p \in Procs :
         \/ \E sessionID \in Tokens : CallGetUserBySession(p, sessionID)
         \/ CallCreateUser(p, "a@test.test", "secret")
         \/ UserStep(p)

SessionSpec == Init /\ [][SessionNext]_vars

\* StartSpec: attempts are started through the handler and submitted, from
\* the store in which a second user has registered and both users have logged
\* in, the seeded user with token "s1" and the second with "s2".
StartCodes == CodeNames \cup {""}
StartRegistered ==
    CreateUserOutcome(BootstrapUsers, BootstrapUsersByEmail, 2, "a@test.test", "secret", "salt1")
StartSessions == CreateSessionOutcome(CreateSessionOutcome(EmptyMap, "s1", 1), "s2", 2)
StartInit ==
    /\ tests = BootstrapTests
    /\ attempts = EmptyMap
    /\ nextUserID = StartRegistered.nextUserID
    /\ users = StartRegistered.users
    /\ usersByEmail = StartRegistered.usersByEmail
    /\ created = [e \in Emails |-> IF e \in DOMAIN StartRegistered.usersByEmail THEN 1 ELSE 0]
    /\ sessions = StartSessions
    /\ issued = StartSessions
    /\ aiThreads = EmptyMap
    /\ openai = NoRun
    /\ accessCodes = BootstrapCodes
    /\ validated = [c \in CodeNames |-> 0]
    /\ now = 0
    /\ mu = MuFree
    /\ pc = [p \in Procs |-> "idle"]
    /\ loc = [p \in Procs |-> NoLocals]

StartNext ==
    \/ \E cookie \in Cookies, testID \in TestIDs, accessCode \in StartCodes :
           StartAttempt(cookie, testID, accessCode)
    \/ \E attemptID \in AttemptIDs : SubmitAttempt(attemptID)

StartSpec == StartInit /\ [][StartNext]_vars

\* SendSpec: attempts are created, time passes, and send-message requests go
\* through the handler one at a time. Time does not stand still while
\* WaitForCompletion waits, and a select whose timeout case stays ready takes
\* it in the end (the runtime picks among the ready cases at random).
SendNext ==
    \/ CreateAttempt(1, 1)
    \/ Tick
    \/ \E threadID \in {"t1", ""}, attemptID \in AttemptIDs, message \in {"hello", ""} :
           SentMassage(1, threadID, attemptID, message)
    \/ SendDeadlineRLock(1)
    \/ SendDeadlineChecked(1)
    \/ SendAddMessage(1)
    \/ SendRunAssistant(1)
    \/ WaitPoll(1)
    \/ WaitTimeout(1)
    \/ WaitCancelled(1)
    \/ SendGetMessages(1)
    \/ \E status \in RunStatuses : RunProgress(status)
    \/ WaitClock
    \/ CtxCancel

SendSpec == Init /\ [][SendNext]_vars /\ WF_vars(WaitClock) /\ WF_vars(WaitTimeout(1))

\* The history of attempts submitted at different times, on a test with and
\* without a time limit.
HistoryInit ==
    /\ tests \in DeadlineTests
    /\ \E started \in HistoryAttempts :
         /\ attempts = [a \in DOMAIN started |-> [started[a] EXCEPT !.ID = a]]
         /\ nextUserID = 2 + Len(started)
    /\ users = BootstrapUsers
    /\ usersByEmail = BootstrapUsersByEmail
    /\ created = [e \in Emails |-> IF e \in DOMAIN BootstrapUsersByEmail THEN 1 ELSE 0]
    /\ sessions = EmptyMap
    /\ issued = EmptyMap
    /\ aiThreads = EmptyMap
    /\ openai = NoRun
    /\ accessCodes = BootstrapCodes
    /\ validated = [c \in CodeNames |-> 0]
    /\ now = 0
    /\ mu = MuFree
    /\ pc = [p \in Procs |-> "idle"]
    /\ loc = [p \in Procs |-> NoLocals]

HistoryNext ==
    \/ \E attemptID \in 1..HistoryMax : SubmitAttempt(attemptID)
    \/ \E userID \in UserIDs, testID \in TestIDs : CallGetUserAttemptHistory(1, userID, testID)
    \/ Tick

HistorySpec == HistoryInit /\ [][HistoryNext]_vars

\* ================================================================ claims

\* The questions of a test with a given id, in catalog order.
QuestionsWithID(test, questionID) ==
    {i \in 1..Len(test.Questions) : test.Questions[i].ID = questionID}

\* The max-score of the question an answer was created for.
AnswerMaxScore(attempt, i) ==
    LET test == tests[attempt.TestID]
        at == CHOOSE k \in QuestionsWithID(test, attempt.Answers[i].QuestionID) : TRUE
    IN test.Questions[at].MaxScore

RECURSIVE SelectedMaxScore(_, _)
SelectedMaxScore(attempt, n) ==
    IF n = 0 THEN 0 ELSE AnswerMaxScore(attempt, n) + SelectedMaxScore(attempt, n - 1)

\* The attempt exists, is before its deadline, and the position indexes an answer.
Answerable(attemptID, questionPos) ==
    /\ attemptID \in DOMAIN attempts
    /\ CheckDeadline(attempts, tests, now, attemptID) = ErrNone
    /\ questionPos \in 1..Len(attempts[attemptID].Answers)

\* C1: once an attempt is submitted, no step changes it (its Result, its
\* Answers, its finished-at): in particular CreateAnswer leaves it as it is.
C1_SubmittedIsFrozen ==
    [][\A a \in DOMAIN attempts :
          attempts[a].Status = "submitted"
              => a \in DOMAIN attempts' /\ attempts'[a] = attempts[a]]_vars

\* C2: Result never exceeds the sum of the max-scores of the questions selected
\* for the attempt (each position scores at most once).
C2_ScoredAtMostOnce ==
    \A a \in DOMAIN attempts :
        attempts[a].Result <= SelectedMaxScore(attempts[a], Len(attempts[a].Answers))

\* A goroutine in SubmitAttempt that found the status "started" and has not
\* returned yet.
SubmitPassed(p) ==
    /\ loc[p].op = "SubmitAttempt"
    /\ \/ pc[p] = "sb_write"
       \/ pc[p] = "runlock" /\ loc[p].err = ErrNone

\* C3: of the SubmitAttempt calls running on one attempt, at most one passes
\* the status check and performs the transition.
C3_OneSubmitWins ==
    \A p, q \in Procs :
        (p # q /\ SubmitPassed(p) /\ SubmitPassed(q))
            => loc[p].attemptID # loc[q].attemptID

\* C4: every award adds the question's max-score to the Result as it is when
\* the award is written (no award is computed from a stale read).
C4_NoLostAward ==
    [][\A p \in Procs :
          (pc[p] = "an_write" /\ pc'[p] = "an_mark")
              => attempts'[loc[p].attemptID].Result =
                     attempts[loc[p].attemptID].Result + loc[p].question[1].MaxScore]_vars

\* A goroutine whose last call was a CreateAttempt that returned an attempt.
CreatedAttempt(p) ==
    pc[p] = "idle" /\ loc[p].op = "CreateAttempt" /\ loc[p].err = ErrNone

\* C5: the attempts returned by CreateAttempt to different callers have
\* different ids.
C5_DistinctAttemptIDs ==
    \A p, q \in Procs :
        (p # q /\ CreatedAttempt(p) /\ CreatedAttempt(q))
            => loc[p].attemptID # loc[q].attemptID

\* C6: while calls are in flight, one of them can take its next step (the
\* calls never all wait for each other on the mutex).
C6_SomeCallProceeds ==
    (\E p \in Procs : pc[p] # "idle")
        => \E p \in Procs : pc[p] # "idle" /\ ENABLED Step(p)

\* C7: every test keeps the questions it was loaded with, in the same order.
C7_CatalogImmutable == tests = BootstrapTests

\* C8: on an attempt before its deadline, CreateAnswer at a position that
\* indexes no answer returns the out-of-range error and changes no attempt.
C8_OutOfRangeRejected ==
    \A a \in DOMAIN attempts, questionPos \in Positions, text \in Texts :
        (/\ CheckDeadline(attempts, tests, now, a) = ErrNone
         /\ questionPos \notin 1..Len(attempts[a].Answers))
            => LET out == CreateAnswerOutcome(attempts, tests, now, a, questionPos, text)
               IN out.err = ErrOutOfRange /\ out.attempts = attempts

\* C9: on a started attempt before its deadline and at a valid position,
\* CreateAnswer with the correct answer of the question at that position of the
\* test's question list adds that question's max-score to Result and marks the
\* answer right; with another text it leaves Result and marks the answer wrong;
\* either way the answer's text becomes the submitted text, the call returns no
\* error and no other attempt changes.
C9_AnswerGraded ==
    \A a \in DOMAIN attempts, questionPos \in Positions, text \in Texts :
        (Answerable(a, questionPos) /\ attempts[a].Status = "started")
            => LET out == CreateAnswerOutcome(attempts, tests, now, a, questionPos, text)
                   question == tests[attempts[a].TestID].Questions[questionPos]
                   before == attempts[a]
                   after == out.attempts[a]
               IN /\ out.err = ErrNone
                  /\ \A b \in DOMAIN attempts : b # a => out.attempts[b] = attempts[b]
                  /\ after.Answers[questionPos].Text = text
                  /\ text = question.TrueAnswer
                       => /\ after.Result = before.Result + question.MaxScore
                          /\ after.Answers[questionPos].RightOrNot
                  /\ text # question.TrueAnswer
                       => /\ after.Result = before.Result
                          /\ ~after.Answers[questionPos].RightOrNot

\* C9 witness: a right answer has been stored and scored.
C9_Witness ==
    \E a \in DOMAIN attempts :
        /\ attempts[a].Status = "started"
        /\ attempts[a].Result = MaxScore
        /\ \E i \in 1..Len(attempts[a].Answers) :
             attempts[a].Answers[i].RightOrNot /\ attempts[a].Answers[i].Text # ""

\* C10: no step lowers the Result of an attempt.
C10_ResultNeverDecreases ==
    [][\A a \in DOMAIN attempts :
          a \in DOMAIN attempts' /\ attempts'[a].Result >= attempts[a].Result]_vars

\* C10 witness: an answer that scored has been answered again with a wrong
\* text and the score is still there.
C10_Witness ==
    \E a \in DOMAIN attempts :
        /\ attempts[a].Result > 0
        /\ \A i \in 1..Len(attempts[a].Answers) :
             attempts[a].Answers[i].Text = "wrong" /\ ~attempts[a].Answers[i].RightOrNot

\* The attempt a successful CreateAttempt has put into the map.
InsertedAttempt(before, after) == after[CHOOSE id \in DOMAIN after : id \notin DOMAIN before]

\* C11: for every existing test and any user, CreateAttempt succeeds and the
\* attempt it returns is started, has Result 0, carries the given user and test,
\* and has exactly min(NumOfQuestions, number of questions of the test) answers,
\* each with an empty text and not marked right.
C11_NewAttemptShape ==
    \A testID \in DOMAIN tests, userID \in UserIDs :
        \A perm \in ShufflesOf(tests, testID) :
            LET out == CreateAttemptOutcome(attempts, tests, nextUserID, now, testID, userID, perm)
                attempt == InsertedAttempt(attempts, out.attempts)
                required == tests[testID].NumOfQuestions
                available == Len(tests[testID].Questions)
            IN /\ out.err = ErrNone
               /\ DOMAIN out.attempts # DOMAIN attempts
               /\ attempt.Status = "started"
               /\ attempt.Result = 0
               /\ attempt.UserID = userID
               /\ attempt.TestID = testID
               /\ Len(attempt.Answers) = (IF required <= available THEN required ELSE available)
               /\ \A i \in 1..Len(attempt.Answers) :
                    attempt.Answers[i].Text = "" /\ ~attempt.Answers[i].RightOrNot

\* C11 witness: two attempts were created, one of them by user 2 with all the
\* questions of a test that asks for more questions than it has.
C11_Witness ==
    /\ Cardinality(DOMAIN attempts) = MaxAttempts
    /\ tests[1].NumOfQuestions > Len(tests[1].Questions)
    /\ \E a \in DOMAIN attempts :
         /\ attempts[a].Status = "started"
         /\ attempts[a].UserID = 2
         /\ Len(attempts[a].Answers) = Len(tests[1].Questions)
         /\ Len(attempts[a].Answers) >= 2

\* C12: in every attempt the answers' question ids are pairwise distinct and
\* each is the id of a question of the attempt's test, whatever permutation the
\* shuffle drew.
C12_SelectedWithoutReplacement ==
    \A a \in DOMAIN attempts :
        LET answers == attempts[a].Answers
            questions == tests[attempts[a].TestID].Questions
        IN /\ \A i, j \in 1..Len(answers) :
                answers[i].QuestionID = answers[j].QuestionID => i = j
           /\ \A i \in 1..Len(answers) :
                \E q \in 1..Len(questions) : questions[q].ID = answers[i].QuestionID

\* C12 witness: an attempt with three questions, drawn in another order than
\* the catalog's.
C12_Witness ==
    \E a \in DOMAIN attempts :
        /\ Len(attempts[a].Answers) = 3
        /\ attempts[a].Answers[1].QuestionID > attempts[a].Answers[2].QuestionID

\* C13: CreateAttempt for a test id that does not exist fails with "test not
\* found" and leaves the tests, the attempts and the counter as they were.
C13_UnknownTestRejected ==
    \A testID \in TestIDs \ DOMAIN tests, userID \in UserIDs :
        \A perm \in ShufflesOf(tests, testID) :
            LET out == CreateAttemptOutcome(attempts, tests, nextUserID, now, testID, userID, perm)
            IN /\ out.err = ErrTestNotFound
               /\ out.tests = tests
               /\ out.attempts = attempts
               /\ out.nextUserID = nextUserID

\* C13 witness: a store that holds attempts and answers, in which a
\* CreateAttempt for the unknown test 2 is rejected.
C13_Witness ==
    /\ 2 \notin DOMAIN tests
    /\ \E a \in DOMAIN attempts : attempts[a].Result > 0
    /\ \A perm \in ShufflesOf(tests, 2) :
         CreateAttemptOutcome(attempts, tests, nextUserID, now, 2, 1, perm).err = ErrTestNotFound

\* now is strictly after the deadline of the attempt, whose test has a positive
\* time limit.
PastDeadline(attempt, t) ==
    /\ tests[attempt.TestID].TimeLimit > 0
    /\ t > attempt.StartedAt + tests[attempt.TestID].TimeLimit

\* The status of an attempt stays, or goes from started to submitted.
StatusMovesForward(before, after) ==
    \/ after.Status = before.Status
    \/ before.Status = "started" /\ after.Status = "submitted"

\* No Store call moves the status of attempt a other than forward.
StatusOneWay(a) ==
    /\ \A attemptID \in AttemptIDs :
         /\ StatusMovesForward(attempts[a],
                SubmitAttemptOutcome(attempts, tests, now, attemptID).attempts[a])
         /\ \A questionPos \in Positions, text \in Texts :
              StatusMovesForward(attempts[a],
                  CreateAnswerOutcome(attempts, tests, now, attemptID, questionPos, text).attempts[a])
    /\ \A testID \in TestIDs, userID \in UserIDs :
         \A perm \in ShufflesOf(tests, testID) :
            StatusMovesForward(attempts[a],
                CreateAttemptOutcome(attempts, tests, nextUserID, now, testID, userID,
                                     perm).attempts[a])

\* C14 as stated: the status only moves from started to submitted, and
\* SubmitAttempt on a submitted attempt fails with "attempt closed" and leaves
\* the attempt as it is.
C14_ResubmitConflict ==
    \A a \in DOMAIN attempts :
        /\ StatusOneWay(a)
        /\ attempts[a].Status = "submitted"
             => LET out == SubmitAttemptOutcome(attempts, tests, now, a)
                IN /\ out.err = ErrClosed
                   /\ out.attempts[a].Status = "submitted"
                   /\ out.attempts[a].FinishedAt = attempts[a].FinishedAt

\* C14: the status only moves from started to submitted, and SubmitAttempt on a
\* submitted attempt fails, with "attempt closed" up to the attempt's deadline
\* and with "test attempt timeout" after it, and leaves the attempt as it is.
C14_ResubmitFails ==
    \A a \in DOMAIN attempts :
        /\ StatusOneWay(a)
        /\ attempts[a].Status = "submitted"
             => LET out == SubmitAttemptOutcome(attempts, tests, now, a)
                IN /\ out.err = (IF PastDeadline(attempts[a], now) THEN ErrTimeout ELSE ErrClosed)
                   /\ out.attempts[a].Status = "submitted"
                   /\ out.attempts[a].FinishedAt = attempts[a].FinishedAt

\* C14 witness: a submitted attempt before its deadline, and one past it.
C14_Witness ==
    /\ \E a \in DOMAIN attempts :
         attempts[a].Status = "submitted" /\ PastDeadline(attempts[a], now)
    /\ \E a \in DOMAIN attempts :
         /\ attempts[a].Status = "submitted"
         /\ ~PastDeadline(attempts[a], now)
         /\ attempts[a].FinishedAt < now

\* C15: SubmitAttempt on a started attempt that is not past its deadline
\* succeeds, sets the status to submitted and finished-at to now, and leaves the
\* rest of the attempt and every other attempt as they were.
C15_SubmitFrame ==
    \A a \in DOMAIN attempts :
        (attempts[a].Status = "started" /\ ~PastDeadline(attempts[a], now))
            => LET out == SubmitAttemptOutcome(attempts, tests, now, a)
                   before == attempts[a]
                   after == out.attempts[a]
               IN /\ out.err = ErrNone
                  /\ DOMAIN out.attempts = DOMAIN attempts
                  /\ \A b \in DOMAIN attempts : b # a => out.attempts[b] = attempts[b]
                  /\ after.Status = "submitted"
                  /\ after.FinishedAt = now
                  /\ after.ID = before.ID
                  /\ after.Result = before.Result
                  /\ after.Answers = before.Answers
                  /\ after.UserID = before.UserID
                  /\ after.TestID = before.TestID
                  /\ after.StartedAt = before.StartedAt

\* C15 witness: an attempt with a score and a stored answer was submitted after
\* it started, while another attempt is still open.
C15_Witness ==
    \E a, b \in DOMAIN attempts :
        /\ attempts[a].Status = "submitted"
        /\ attempts[a].FinishedAt > attempts[a].StartedAt
        /\ attempts[a].Result = MaxScore
        /\ attempts[a].Answers[1].RightOrNot
        /\ attempts[b].Status = "started"

\* C16: once now is past the deadline of an attempt whose test has a positive
\* time limit, every CreateAnswer and SubmitAttempt on it fails with "test
\* attempt timeout" and no Store call changes the attempt.
C16_ExpiredImmutable ==
    \A a \in DOMAIN attempts :
        PastDeadline(attempts[a], now)
            => /\ LET out == SubmitAttemptOutcome(attempts, tests, now, a)
                  IN out.err = ErrTimeout /\ out.attempts = attempts
               /\ \A questionPos \in Positions, text \in Texts :
                    LET out == CreateAnswerOutcome(attempts, tests, now, a, questionPos, text)
                    IN out.err = ErrTimeout /\ out.attempts = attempts
               /\ \A b \in AttemptIDs \ {a} :
                    /\ SubmitAttemptOutcome(attempts, tests, now, b).attempts[a] = attempts[a]
                    /\ \A questionPos \in Positions, text \in Texts :
                         CreateAnswerOutcome(attempts, tests, now, b, questionPos,
                                             text).attempts[a] = attempts[a]
               /\ \A testID \in TestIDs, userID \in UserIDs :
                    \A perm \in ShufflesOf(tests, testID) :
                        CreateAttemptOutcome(attempts, tests, nextUserID, now, testID, userID,
                                             perm).attempts[a] = attempts[a]

\* C16 witness: a started attempt with a score is past its deadline while
\* another attempt is still in time.
C16_Witness ==
    \E a, b \in DOMAIN attempts :
        /\ PastDeadline(attempts[a], now)
        /\ attempts[a].Status = "started"
        /\ attempts[a].Result > 0
        /\ ~PastDeadline(attempts[b], now)

\* C17: CheckDeadline returns "attempt not found" for an unknown attempt,
\* "test attempt timeout" exactly when the attempt's test has a positive time
\* limit and now is strictly after startedAt + timeLimit, and no error
\* otherwise: at now = startedAt + timeLimit, and always when the time limit is
\* zero. A call changes nothing in the store.
C17_CheckDeadline ==
    /\ [](\A attemptID \in AttemptIDs :
            LET err == CheckDeadline(attempts, tests, now, attemptID)
            IN IF attemptID \notin DOMAIN attempts THEN err = ErrAttemptNotFound
               ELSE LET startedAt == attempts[attemptID].StartedAt
                        timeLimit == tests[attempts[attemptID].TestID].TimeLimit
                    IN /\ err = ErrTimeout <=> (timeLimit > 0 /\ now > startedAt + timeLimit)
                       /\ err # ErrTimeout => err = ErrNone
                       /\ now = startedAt + timeLimit => err = ErrNone
                       /\ timeLimit = 0 => err = ErrNone)
    /\ [][\A p \in Procs :
             (loc'[p] # loc[p] /\ loc'[p].op = "CheckDeadline")
                 => /\ UNCHANGED <<storeVars, userVars, sessionVars, aiThreads, openai, codeVars>>
                    /\ loc'[p].err = CheckDeadline(attempts, tests, now, loc'[p].attemptID)]_vars

\* C17 witness: CheckDeadline has passed an attempt at the very end of its
\* positive time limit.
C17_Witness ==
    \E p \in Procs :
        /\ loc[p].op = "CheckDeadline"
        /\ loc[p].err = ErrNone
        /\ loc[p].attemptID \in DOMAIN attempts
        /\ tests[attempts[loc[p].attemptID].TestID].TimeLimit > 0
        /\ now = attempts[loc[p].attemptID].StartedAt
                   + tests[attempts[loc[p].attemptID].TestID].TimeLimit

\* C18: every access code with a usage limit has been used at most that many
\* times, however the ValidateAccessCode calls of the goroutines interleave.
C18_UsedWithinLimit ==
    \A c \in DOMAIN accessCodes :
        accessCodes[c].MaxUses # Nil => accessCodes[c].UsedCount <= accessCodes[c].MaxUses[1]

\* C18 witness: a code has reached its limit of at least one use while every
\* goroutine is in a ValidateAccessCode call for it.
C18_Witness ==
    \E c \in DOMAIN accessCodes :
        /\ accessCodes[c].MaxUses # Nil
        /\ accessCodes[c].MaxUses[1] >= 1
        /\ accessCodes[c].UsedCount = accessCodes[c].MaxUses[1]
        /\ \A p \in Procs :
             /\ pc[p] \in {"vc_lock", "vc_body"}
             /\ loc[p].code = c
             /\ loc[p].testID = accessCodes[c].TestID

\* C19: for a code with usage limit n that has not expired, a ValidateAccessCode
\* call for the matching test succeeds exactly while fewer than n calls have
\* succeeded and fails with "access code usage limit reached" from then on; a
\* code without a limit never fails with that error.
C19_FirstNSucceed ==
    /\ \A c \in DOMAIN accessCodes :
         LET accessCode == accessCodes[c]
             expired == accessCode.ExpiresAt # Nil /\ now > accessCode.ExpiresAt[1]
         IN /\ accessCode.MaxUses # Nil
                 => /\ validated[c] <= accessCode.MaxUses[1]
                    /\ ~expired
                         => ValidateAccessCodeOutcome(accessCodes, now, c, accessCode.TestID).err
                              = (IF validated[c] < accessCode.MaxUses[1]
                                 THEN ErrNone ELSE ErrLimitReached)
            /\ accessCode.MaxUses = Nil
                 => \A testID \in TestIDs :
                      ValidateAccessCodeOutcome(accessCodes, now, c, testID).err # ErrLimitReached
    /\ \A p \in Procs :
         (loc[p].op = "ValidateAccessCode" /\ loc[p].err = ErrLimitReached)
             => accessCodes[loc[p].code].MaxUses # Nil

\* C19 witness: a code with limit 2 has been validated twice, the last time by
\* one goroutine while the call of the other was turned down at the limit.
C19_Witness ==
    \E c \in DOMAIN accessCodes, p, q \in Procs :
        /\ accessCodes[c].MaxUses = Ptr(2)
        /\ validated[c] = 2
        /\ accessCodes[c].UsedCount = 2
        /\ loc[p].op = "ValidateAccessCode" /\ loc[p].code = c /\ loc[p].err = ErrNone
        /\ loc[q].op = "ValidateAccessCode" /\ loc[q].code = c /\ loc[q].err = ErrLimitReached

\* C20: a ValidateAccessCode call returns "invalid access code" for an unknown
\* code, else "access code is not valid for this test" for a code of another
\* test, else "access code has expired" when now is past the expiry, else
\* "access code usage limit reached" when UsedCount >= MaxUses, else no error;
\* a failed call changes nothing, a successful one adds 1 to the UsedCount of
\* the code and changes nothing else.
C20_ValidateOrderAndFrame ==
    [][\A p \in Procs :
          (pc[p] = "vc_body" /\ pc'[p] = "idle")
              => LET code == loc[p].code
                     testID == loc[p].testID
                     err == IF code \notin DOMAIN accessCodes THEN ErrInvalidCode
                            ELSE IF accessCodes[code].TestID # testID THEN ErrWrongTest
                            ELSE IF /\ accessCodes[code].ExpiresAt # Nil
                                    /\ now > accessCodes[code].ExpiresAt[1]
                                 THEN ErrCodeExpired
                            ELSE IF /\ accessCodes[code].MaxUses # Nil
                                    /\ accessCodes[code].UsedCount >= accessCodes[code].MaxUses[1]
                                 THEN ErrLimitReached
                            ELSE ErrNone
                 IN /\ loc'[p].err = err
                    /\ UNCHANGED <<storeVars, userVars, sessionVars, aiThreads, openai>>
                    /\ err # ErrNone => accessCodes' = accessCodes
                    /\ err = ErrNone
                         => accessCodes' = [accessCodes EXCEPT ![code].UsedCount = @ + 1]]_vars

\* C20 witness: a call for the wrong test was turned down for the test although
\* the code had expired and had no use left, an unknown code was turned down,
\* and the seed code has been used.
C20_Witness ==
    \E c \in DOMAIN accessCodes, p, q \in Procs :
        /\ accessCodes[c].ExpiresAt # Nil /\ now > accessCodes[c].ExpiresAt[1]
        /\ accessCodes[c].MaxUses # Nil
        /\ accessCodes[c].UsedCount >= accessCodes[c].MaxUses[1]
        /\ loc[p].op = "ValidateAccessCode" /\ loc[p].code = c /\ loc[p].err = ErrWrongTest
        /\ loc[q].op = "ValidateAccessCode" /\ loc[q].err = ErrCodeExpired
        /\ accessCodes[CodeInfinity].UsedCount > 0

\* C21: CreateAccessCode fails with "test not found" for an unknown test and
\* with "access code already exists" for a code that is stored, leaving every
\* stored code as it is, UsedCount included; otherwise it succeeds and stores
\* the code with UsedCount 0, bound to the given test, beside the codes that
\* were there.
C21_CreateAccessCode ==
    \A code \in CodeNames, testID \in TestIDs, maxUses \in MaxUsesInputs,
       expiresAt \in ExpiresInputs :
        LET out == CreateAccessCodeOutcome(accessCodes, tests, code, testID, maxUses, expiresAt)
        IN /\ testID \notin DOMAIN tests
                => out.err = ErrTestNotFound /\ out.accessCodes = accessCodes
           /\ (testID \in DOMAIN tests /\ code \in DOMAIN accessCodes)
                => out.err = ErrCodeExists /\ out.accessCodes = accessCodes
           /\ (testID \in DOMAIN tests /\ code \notin DOMAIN accessCodes)
                => /\ out.err = ErrNone
                   /\ DOMAIN out.accessCodes = DOMAIN accessCodes \cup {code}
                   /\ out.accessCodes[code].Code = code
                   /\ out.accessCodes[code].TestID = testID
                   /\ out.accessCodes[code].UsedCount = 0
                   /\ out.accessCodes[code].MaxUses = maxUses
                   /\ out.accessCodes[code].ExpiresAt = expiresAt
                   /\ \A c \in DOMAIN accessCodes : out.accessCodes[c] = accessCodes[c]

\* C21 witness: a created code with a limit and an expiry has been used, and
\* so has the seed code.
C21_Witness ==
    \E c \in DOMAIN accessCodes :
        /\ c # CodeInfinity
        /\ accessCodes[c].TestID = 1
        /\ accessCodes[c].MaxUses # Nil
        /\ accessCodes[c].ExpiresAt # Nil
        /\ accessCodes[c].UsedCount > 0
        /\ accessCodes[CodeInfinity].UsedCount > 0

C23_IndexAgrees ==
    /\ \A e \in DOMAIN usersByEmail :
         usersByEmail[e] \in DOMAIN users /\ users[usersByEmail[e]].Email = e
    /\ \A u \in DOMAIN users :
         /\ users[u].ID = u
         /\ users[u].Email \in DOMAIN usersByEmail
         /\ usersByEmail[users[u].Email] = u
    /\ \A u, v \in DOMAIN users : users[u].Email = users[v].Email => u = v

\* C23 witness: every email has a user, while a further CreateUser call is in
\* flight.
C23_Witness ==
    /\ Cardinality(DOMAIN users) = Cardinality(Emails)
    /\ DOMAIN usersByEmail = Emails
    /\ \E p \in Procs : pc[p] = "cu_body"

\* C24: a successful CreateUser stores the user under an id greater than the id
\* of every user there is, leaving those users as they are, whatever CreateAttempt
\* calls ran in between.
C24_UserIDsIncrease ==
    [][\A p \in Procs :
          (pc[p] = "cu_body" /\ pc'[p] = "idle" /\ loc'[p].err = ErrNone)
              => /\ \E id \in DOMAIN users' :
                      /\ DOMAIN users' = DOMAIN users \cup {id}
                      /\ users'[id].ID = id
                      /\ \A u \in DOMAIN users : id > u /\ id > users[u].ID
                 /\ \A u \in DOMAIN users : users'[u] = users[u]]_vars

\* C24 witness: three users, with ids that CreateAttempt calls have spread out,
\* and an attempt inserted after the last of them.
C24_Witness ==
    /\ Cardinality(DOMAIN users) = 3
    /\ \E u, v \in DOMAIN users : u > 1 /\ v > u + 1
    /\ \A u \in DOMAIN users : nextUserID > u + 1

\* C25: AuthenticateUser returns the user of the email when the email is
\* registered and the password verifies against the hash stored for that user,
\* and the one error "invalid email or password" otherwise, for an unknown
\* email as for a wrong password; a call changes nothing in the store.
C25_Authenticate ==
    /\ [](\A email \in Emails, password \in Passwords :
            LET out == AuthenticateUserOutcome(users, usersByEmail, email, password)
                verified == {u \in DOMAIN users :
                               /\ users[u].Email = email
                               /\ CompareHashAndPassword(users[u].Password, password)}
            IN /\ verified # {}
                    => /\ out.err = ErrNone
                       /\ \E u \in verified : out.user = <<users[u]>>
               /\ verified = {}
                    => out.err = ErrInvalidEmailOrPassword /\ out.user = <<>>)
    /\ [][\A p \in Procs :
             (loc'[p] # loc[p] /\ loc'[p].op = "AuthenticateUser")
                 => UNCHANGED <<storeVars, userVars, sessionVars, aiThreads, openai, codeVars>>]_vars

\* C25 witness: two users with different passwords; one goroutine has logged
\* in as the user created last, the other was turned down.
C25_Witness ==
    \E u, v \in DOMAIN users, p, q \in Procs :
        /\ u > 1 /\ v > u
        /\ users[u].Password.digest[2] # users[v].Password.digest[2]
        /\ loc[p].op = "AuthenticateUser" /\ loc[p].err = ErrNone /\ loc[p].userID = v
        /\ loc[q].op = "AuthenticateUser" /\ loc[q].err = ErrInvalidEmailOrPassword

\* C26: a session id that CreateSession returned for a user resolves through
\* GetUserBySession to that user for as long as it is stored, it stays stored
\* with the same user until a DeleteSession of that very id removes it, and
\* from then on, like an id that was never returned, it resolves to found =
\* false; DeleteSession of an id that is not stored changes nothing.
C26_SessionLifecycle ==
    /\ [](\A sessionID \in Tokens :
            LET out == GetUserBySession(sessions, users, sessionID)
            IN /\ sessionID \in DOMAIN sessions
                    => /\ sessionID \in DOMAIN issued
                       /\ out.found
                       /\ out.user[1].ID = issued[sessionID]
               /\ sessionID \notin DOMAIN sessions
                    => /\ ~out.found
                       /\ DeleteSessionOutcome(sessions, sessionID) = sessions)
    /\ [][\A sessionID \in Tokens :
             /\ (sessionID \in DOMAIN sessions /\ sessionID \in DOMAIN sessions')
                  => sessions'[sessionID] = sessions[sessionID]
             /\ (sessionID \in DOMAIN sessions /\ sessionID \notin DOMAIN sessions')
                  => /\ DOMAIN sessions' = DOMAIN sessions \ {sessionID}
                     /\ UNCHANGED <<storeVars, userVars, issued, aiThreads, openai, codeVars>>
             /\ (sessionID \in DOMAIN issued /\ sessionID \notin DOMAIN sessions)
                  => sessionID \notin DOMAIN sessions']_vars

\* C26 witness: of two sessions of the user who registered, one has been
\* deleted and one is live beside a session of the seed user, and a goroutine
\* has resolved a session to the user who registered.
C26_Witness ==
    \E a, b, c \in DOMAIN issued, p \in Procs :
        /\ issued[a] = 2 /\ a \notin DOMAIN sessions
        /\ issued[b] = 2 /\ b \in DOMAIN sessions
        /\ issued[c] = 1 /\ c \in DOMAIN sessions
        /\ loc[p].op = "GetUserBySession" /\ loc[p].userID = 2

\* C27: for an existing test GetUserAttemptHistory succeeds and returns, each
\* once and as they are stored, exactly the attempts of the given user on the
\* given test that are submitted, in whatever order the attempts are visited;
\* for an unknown test it fails with "test not found".
C27_HistoryContent ==
    \A userID \in UserIDs, testID \in TestIDs :
        \A order \in Orders(DOMAIN attempts) :
            LET out == GetUserAttemptHistoryOutcome(attempts, tests, userID, testID, order)
                wanted == {a \in DOMAIN attempts :
                             /\ attempts[a].UserID = userID
                             /\ attempts[a].TestID = testID
                             /\ attempts[a].Status = "submitted"}
            IN /\ testID \notin DOMAIN tests => out.err = ErrTestNotFound
               /\ testID \in DOMAIN tests
                    => /\ out.err = ErrNone
                       /\ Len(out.history) = Cardinality(wanted)
                       /\ {out.history[i].ID : i \in 1..Len(out.history)} = wanted
                       /\ \A i \in 1..Len(out.history) :
                            out.history[i] = attempts[out.history[i].ID]

\* C27 witness: user 1 has a submitted and a started attempt and user 2 a
\* submitted one, and the history read for user 1 holds the one attempt.
C27_Witness ==
    \E a, b, c \in DOMAIN attempts :
        /\ attempts[a].UserID = 1 /\ attempts[a].Status = "submitted"
        /\ attempts[b].UserID = 1 /\ attempts[b].Status = "started"
        /\ attempts[c].UserID = 2 /\ attempts[c].Status = "submitted"
        /\ loc[1].op = "GetUserAttemptHistory"
        /\ loc[1].userID = 1 /\ loc[1].testID = 1
        /\ loc[1].built = <<a>>

\* C28: the list GetUserAttemptHistory returns is ordered by finished-at
\* descending: no entry finished before the entry that follows it, in whatever
\* order the attempts are visited.
C28_HistoryOrder ==
    \A userID \in UserIDs, testID \in TestIDs :
        \A order \in Orders(DOMAIN attempts) :
            LET history == GetUserAttemptHistoryOutcome(attempts, tests, userID, testID,
                                                        order).history
            IN \A i \in 1..(Len(history) - 1) :
                 history[i].FinishedAt >= history[i + 1].FinishedAt

\* C28 witness: three attempts of one user were submitted at three different
\* times, the first created last, and the history read lists them latest
\* first.
C28_Witness ==
    /\ Cardinality(DOMAIN attempts) = 3
    /\ \A a \in DOMAIN attempts : attempts[a].Status = "submitted" /\ attempts[a].UserID = 1
    /\ attempts[3].FinishedAt < attempts[1].FinishedAt
    /\ attempts[1].FinishedAt < attempts[2].FinishedAt
    /\ loc[1].op = "GetUserAttemptHistory"
    /\ loc[1].built = <<2, 1, 3>>

\* C29: GetAttemptQuestions fails with "attempt not found" for an unknown
\* attempt; for an attempt CreateAttempt made it succeeds, whatever shuffles of
\* the test followed, and returns as many questions as the attempt has answers,
\* the i-th being the question of the attempt's test whose id is the question
\* id of the i-th answer.
C29_AttemptQuestions ==
    \A attemptID \in AttemptIDs :
        LET out == GetAttemptQuestionsOutcome(attempts, tests, attemptID)
        IN /\ attemptID \notin DOMAIN attempts
                => out.err = ErrAttemptNotFound /\ out.questions = <<>>
           /\ attemptID \in DOMAIN attempts
                => LET answers == attempts[attemptID].Answers
                       questions == tests[attempts[attemptID].TestID].Questions
                   IN /\ out.err = ErrNone
                      /\ Len(out.questions) = Len(answers)
                      /\ \A i \in 1..Len(answers) :
                           /\ out.questions[i].ID = answers[i].QuestionID
                           /\ \E k \in 1..Len(questions) : questions[k] = out.questions[i]

\* C29 witness: the questions of an attempt with three answers were read
\* after a later CreateAttempt had put the test's questions into another order,
\* and they came in the attempt's order.
C29_Witness ==
    \E a \in DOMAIN attempts :
        /\ Len(attempts[a].Answers) = 3
        /\ \E i \in 1..3 : tests[1].Questions[i].ID # attempts[a].Answers[i].QuestionID
        /\ attempts[a].Answers[1].QuestionID # 1
        /\ loc[1].op = "GetAttemptQuestions"
        /\ loc[1].attemptID = a
        /\ loc[1].err = ErrNone
        /\ loc[1].built = [i \in 1..3 |-> attempts[a].Answers[i].QuestionID]

\* C30: CreateAIThread fails with "attempt not found" for an unknown attempt
\* and with "invalid question position" for position 0 or a position above the
\* attempt's number of answers, storing nothing; for a position other than 1
\* that already has a thread it fails with "thread already exists for this
\* question" and stores nothing; and a thread stored for a position other than
\* 1 is never replaced or removed afterwards.
C30_RefusedCalls ==
    \A attemptID \in AttemptIDs, questionPosition \in AIPositions, threadID \in ThreadIDs :
        LET out == CreateAIThreadOutcome(aiThreads, attempts, attemptID,
                                         questionPosition, threadID, now)
            key == AIKey(attemptID, questionPosition)
        IN /\ attemptID \notin DOMAIN attempts
                => out.err = ErrAttemptNotFound /\ out.aiThreads = aiThreads
           /\ (/\ attemptID \in DOMAIN attempts
               /\ questionPosition = 0 \/ questionPosition > Len(attempts[attemptID].Answers))
                => out.err = ErrInvalidPosition /\ out.aiThreads = aiThreads
           /\ (/\ attemptID \in DOMAIN attempts
               /\ questionPosition \in 2..Len(attempts[attemptID].Answers)
               /\ key \in DOMAIN aiThreads)
                => out.err = ErrThreadExists /\ out.aiThreads = aiThreads

C30_BoundOnce ==
    \A attemptID \in AttemptIDs, questionPosition \in AIPositions \ {1} :
        LET key == AIKey(attemptID, questionPosition)
        IN key \in DOMAIN aiThreads
              => key \in DOMAIN aiThreads' /\ aiThreads'[key] = aiThreads[key]

C30_SingleBinding == []C30_RefusedCalls /\ [][C30_BoundOnce]_vars

\* C30 witness: position 2 of an attempt has the thread of a first call, and a
\* second call for the same attempt and position has just been refused.
C30_Witness ==
    \E a \in DOMAIN attempts :
        /\ AIKey(a, 2) \in DOMAIN aiThreads
        /\ aiThreads[AIKey(a, 2)].ThreadID = "t1"
        /\ loc[1].op = "CreateAIThread"
        /\ loc[1].attemptID = a
        /\ loc[1].questionPos = 2
        /\ loc[1].err = ErrThreadExists

\* C31: position 1 may be bound again: on an existing attempt CreateAIThread
\* for position 1 succeeds whether or not the position has a thread, and the
\* thread stored for it afterwards has the thread id of that call and status
\* "active".
C31_PositionOneOutcome ==
    \A attemptID \in DOMAIN attempts, threadID \in ThreadIDs :
        LET out == CreateAIThreadOutcome(aiThreads, attempts, attemptID, 1, threadID, now)
        IN /\ out.err = ErrNone
           /\ AIKey(attemptID, 1) \in DOMAIN out.aiThreads
           /\ out.aiThreads[AIKey(attemptID, 1)].ThreadID = threadID
           /\ out.aiThreads[AIKey(attemptID, 1)].Status = "active"
           /\ out.aiThreads[AIKey(attemptID, 1)].AttemptID = attemptID

C31_PositionOneStep ==
    \A attemptID \in DOMAIN attempts, threadID \in ThreadIDs :
        CreateAIThread(attemptID, 1, threadID)
            => /\ aiThreads'[AIKey(attemptID, 1)].ThreadID = threadID
               /\ aiThreads'[AIKey(attemptID, 1)].Status = "active"

C31_PositionOneRebinds == []C31_PositionOneOutcome /\ [][C31_PositionOneStep]_vars

\* C31 witness: position 1 of an attempt had a thread, CreateAIThread was
\* called for it again with "t2" and succeeded, and the position holds "t2".
C31_Witness ==
    \E a \in DOMAIN attempts :
        /\ loc[1].op = "CreateAIThread"
        /\ loc[1].attemptID = a
        /\ loc[1].questionPos = 1
        /\ loc[1].read = 1
        /\ loc[1].text = "t2"
        /\ loc[1].err = ErrNone
        /\ aiThreads[AIKey(a, 1)].ThreadID = "t2"
        /\ aiThreads[AIKey(a, 1)].Status = "active"

\* C37: the pairs (attempt, position) that CreateAIThread accepts have
\* distinct keys: two accepted pairs with the same key are the same pair, every
\* stored thread is under the key of one accepted pair of its own attempt, and
\* a call changes the thread of no pair but the one it was called for.
AcceptedPairs ==
    {pair \in AttemptIDs \X AIPositions :
        /\ pair[1] \in DOMAIN attempts
        /\ pair[2] \in 1..Len(attempts[pair[1]].Answers)}

C37_Injective ==
    /\ \A x \in AcceptedPairs, y \in AcceptedPairs :
           AIKey(x[1], x[2]) = AIKey(y[1], y[2]) => x = y
    /\ \A key \in DOMAIN aiThreads :
           \E x \in AcceptedPairs :
               /\ AIKey(x[1], x[2]) = key
               /\ aiThreads[key].AttemptID = x[1]

C37_OwnPairOnly ==
    \A x \in AcceptedPairs :
        LET key == AIKey(x[1], x[2])
            before == IF key \in DOMAIN aiThreads THEN <<aiThreads[key]>> ELSE <<>>
            after == IF key \in DOMAIN aiThreads' THEN <<aiThreads'[key]>> ELSE <<>>
        IN before # after
              => /\ loc'[1].op = "CreateAIThread"
                 /\ loc'[1].attemptID = x[1]
                 /\ loc'[1].questionPos = x[2]

C37_KeysDistinct == []C37_Injective /\ [][C37_OwnPairOnly]_vars

\* C37 witness: position 2 of attempt 1 and position 1 of attempt 2 both have
\* a thread, with different thread ids, the second stored after the first.
C37_Witness ==
    /\ {1, 2} \subseteq DOMAIN attempts
    /\ AIKey(1, 2) \in DOMAIN aiThreads
    /\ AIKey(2, 1) \in DOMAIN aiThreads
    /\ aiThreads[AIKey(1, 2)].ThreadID = "t1"
    /\ aiThreads[AIKey(2, 1)].ThreadID = "t2"
    /\ loc[1].op = "CreateAIThread"
    /\ loc[1].attemptID = 2
    /\ loc[1].questionPos = 1
    /\ loc[1].err = ErrNone

\* C32: the password hash is computed outside the Store's lock: a goroutine
\* that is about to call bcrypt.GenerateFromPassword in CreateUser does not
\* hold s.mu. (CreateUser takes the lock at its first statement and releases
\* it on return, so this fails.)
C32_HashOutsideLock == \A p \in Procs : Hashing(p) => mu.w # p

\* C33: grading matches the displayed question: for every attempt, every
\* position p of its answers and every text, a CreateAnswer that returns
\* without error marks the p-th answer right exactly when the text is the
\* correct answer of the question GetAttemptQuestions returns at p, the one
\* whose id the p-th answer holds. (CreateAnswer takes the question from the
\* p-th place of the test's list as it is now, store.go:404, so this fails
\* once a later CreateAttempt has reordered the list.)
C33_GradedIsDisplayed ==
    \A attemptID \in DOMAIN attempts, text \in Texts :
        \A questionPos \in 1..Len(attempts[attemptID].Answers) :
            LET shown == GetAttemptQuestionsOutcome(attempts, tests, attemptID)
                out == CreateAnswerOutcome(attempts, tests, now, attemptID, questionPos, text)
            IN out.err = ErrNone
                  => /\ shown.err = ErrNone
                     /\ out.attempts[attemptID].Answers[questionPos].RightOrNot
                           = IsRight(shown.questions[questionPos], text)

\* C34: an attempt started through the StartAttempt handler belongs to the
\* user of the session and to the requested test: a request of a logged-in
\* user whose access code was accepted for the test ends with a stored attempt
\* whose UserID is that user's id and whose TestID is the test_id of the
\* request, and once that attempt is submitted it is in the history of that
\* user for that test. (The handler passes the user id as the test id,
\* handler.go:304, so this fails for every user whose id is not a test's.)
C34_StartedForUserAndTest ==
    (loc[1].op = "StartAttempt" /\ loc[1].read = 1)
        => /\ loc[1].attemptID \in DOMAIN attempts
           /\ attempts[loc[1].attemptID].UserID = loc[1].userID
           /\ attempts[loc[1].attemptID].TestID = loc[1].testID
           /\ attempts[loc[1].attemptID].Status = "submitted"
                => \A order \in Orders(DOMAIN attempts) :
                      LET out == GetUserAttemptHistoryOutcome(attempts, tests, loc[1].userID,
                                                              loc[1].testID, order)
                      IN \E i \in 1..Len(out.history) : out.history[i].ID = loc[1].attemptID

\* C35: a StartAttempt request consumes at most one use of an access code,
\* and a request that consumed a use has created an attempt. (A request whose
\* CreateAttempt fails, as for C34, has consumed the use already.)
C35_UseMeansAttempt ==
    loc[1].op = "StartAttempt"
        => /\ loc[1].read <= 1
           /\ loc[1].read = 1 => loc[1].attemptID \in DOMAIN attempts

\* C36: CreateAttempt changes only the attempts map: the users, the email
\* index, the user-id counter, the sessions, the access codes and the AI
\* threads are after the call what they were before. (CreateAttempt ends with
\* s.nextUserID++, store.go:237, so this fails.)
C36_CreateAttemptFrame ==
    [][\A testID \in TestIDs, userID \in UserIDs :
          CreateAttempt(testID, userID)
              => UNCHANGED <<users, usersByEmail, nextUserID, sessions, accessCodes, aiThreads>>]_vars

\* C38: the handler of a protected route runs only for a request whose
\* session_id cookie resolves, through GetUserBySession, to a user of the
\* store, and it finds that user's id in its context; a request without the
\* cookie, with a token CreateSession never returned, or with a token that
\* DeleteSession (Logout) has removed does not reach the handler.
C38_ProtectedRoutes ==
    \A cookie \in Cookies :
        LET auth == AuthMiddlewareOutcome(sessions, users, cookie)
        IN /\ auth.next
                => /\ cookie \in DOMAIN sessions
                   /\ sessions[cookie] \in DOMAIN users
                   /\ GetUserBySession(sessions, users, cookie).found
                   /\ auth.userID = sessions[cookie]
                   /\ auth.userID = users[sessions[cookie]].ID
           /\ cookie = NoCookie => ~auth.next
           /\ cookie \notin DOMAIN issued => ~auth.next
           /\ cookie \in DOMAIN issued \ DOMAIN sessions => ~auth.next
           /\ (cookie \in DOMAIN sessions /\ sessions[cookie] \in DOMAIN users) => auth.next

\* C38 witness: the token "s1" was issued and deleted again while another
\* token is live, and a request with the deleted token has just been rejected.
C38_Witness ==
    /\ "s1" \in DOMAIN issued \ DOMAIN sessions
    /\ DOMAIN sessions # {}
    /\ loc[1].op = "AuthMiddleware"
    /\ loc[1].token = "s1"
    /\ loc[1].userID = 0
    /\ loc[1].err = ErrInvalidSession

\* C39: in the send-message flow the deadline is checked before the
\* assistant is called: a request makes a call of the assistant's client only
\* after CheckDeadline returned nil for it, a request for which CheckDeadline
\* failed (unknown attempt, or deadline passed) has posted no message and
\* started no run, and the calls are made while the request holds no lock of
\* the Store.
C39_DeadlineFirst ==
    LET AtClient == pc[1] \in {"sm_add", "sm_run", "sm_wait", "sm_get"}
    IN loc[1].op = "SentMassage"
         => /\ (AtClient \/ loc[1].built # <<>>) => loc[1].read = 1
            /\ loc[1].err \in {ErrAttemptNotFound, ErrTestNotFound, ErrTimeout}
                 => loc[1].built = <<>> /\ pc[1] = "idle" /\ loc[1].read = 0
            /\ AtClient => mu.readers[1] = 0 /\ mu.w # 1

\* C39 witness: a request for an attempt whose deadline has passed was
\* refused with the timeout error, with no call of the client made.
C39_Witness ==
    /\ loc[1].op = "SentMassage"
    /\ loc[1].attemptID \in DOMAIN attempts
    /\ loc[1].err = ErrTimeout
    /\ loc[1].built = <<>>
    /\ pc[1] = "idle"

\* C40: WaitForCompletion always terminates: it returns nil only after it saw
\* the status completed; it returns an error after failed, cancelled or
\* expired, after a status it does not know, after a failed poll, after the
\* context was cancelled and after maxWaitTime; and it goes on polling only
\* after queued, in_progress or cancelling.
C40_Verdicts ==
    loc[1].op = "SentMassage"
        => /\ pc[1] = "sm_get" => loc[1].text = "completed"
           /\ pc[1] = "sm_wait" => loc[1].text \in {"", "queued", "in_progress", "cancelling"}
           /\ loc[1].text \in {"failed", "cancelled", "expired"}
                => pc[1] = "idle" /\ loc[1].err = ErrRunFailed
           /\ loc[1].text = "requires_action"
                => pc[1] = "idle" /\ loc[1].err = ErrUnknownStatus
           /\ loc[1].err = ErrWaitTimeout => pc[1] = "idle" /\ openai.elapsed >= MaxWait
           /\ loc[1].err = ErrCtx => pc[1] = "idle" /\ openai.ctxDone
           /\ loc[1].err = ErrNone => loc[1].text = "completed"

C40_WaitTerminates == []C40_Verdicts /\ ((pc[1] = "sm_wait") ~> (pc[1] # "sm_wait"))

\* C40 witness: WaitForCompletion polled a run that was in progress, went on
\* waiting, and returned the timeout error after MaxWait seconds.
C40_Witness ==
    /\ loc[1].op = "SentMassage"
    /\ loc[1].text = "in_progress"
    /\ loc[1].err = ErrWaitTimeout
    /\ openai.elapsed = MaxWait
    /\ pc[1] = "idle"

====
